---- MODULE Spec2Model ----
(***************************************************************************)
(* Model of the octopus data-mapping core: the ordered record container    *)
(* (base.RecordData), the SQL query builder (clients.sqlQuery) and the     *)
(* by-id operations of the two SQL clients (clients.Postgres and           *)
(* clients.SQLServer).                                                     *)
(*                                                                         *)
(* Statement text is a sequence of atoms (strings).  A blank is the atom   *)
(* " " of its own, so that strings.TrimRight and single-space separation   *)
(* are observable; no other atom begins or ends with a blank.              *)
(***************************************************************************)
EXTENDS Integers, Sequences, FiniteSets, TLC

VARIABLES
    rd,           \* the base.RecordData under test: [data, keys, dataNil, keysNil]
    client,       \* the SQL client in use: "postgres" or "sqlserver"
    q,            \* the sqlQuery builder: [table, conditions, enquoter, sorts, limit, offset]
    op,           \* name of the last operation called
    arg,          \* arguments of the last operation: [key, value, newName, id, data, ...]
    drv,          \* what the driver answered to the last operation: [outcome, count]
    sent,         \* the statements the last operation handed to the driver, in order
    whereClause,  \* local whereClause of the last builder operation
    ret,          \* what the last operation returned: [data, set, count, err, panic]
    mq,           \* the mongoQuery builder: [query, collection, queryMap]
    db,           \* what the backend holds: the documents of the collection, or the tables
    schemes,      \* the scheme instances in memory, by address
    model,        \* the Model: [driver, client], client = 0 when it holds none
    conns         \* the clients made so far, by number: [closed]

vars == <<rd, client, q, op, arg, drv, sent, whereClause, ret,
          mq, db, schemes, model, conns>>

----------------------------------------------------------------------------
(* Bounds of the model *)

MaxConds == 2

----------------------------------------------------------------------------
(* Go values (interface{}): a uniform record, kind is the reflect kind *)

NilV == [kind |-> "nil", n |-> 0, s |-> ""]

IntV(n) == [kind |-> "int", n |-> n, s |-> ""]

StrV(s) == [kind |-> "string", n |-> 0, s |-> s]

BoolV(b) == [kind |-> "bool", n |-> IF b THEN 1 ELSE 0, s |-> ""]

SP == " "

\* fmt.Sprintf("%v", v)
FmtV(v) ==
    CASE v.kind = "int" -> <<ToString(v.n)>>
      [] v.kind = "string" -> <<v.s>>
      [] v.kind = "bool" -> <<IF v.n = 1 THEN "true" ELSE "false">>
      [] OTHER -> <<"<nil>">>

\* Postgres.enquoteValue, scalar kinds; a nil interface value has no
\* reflect type and faults
PostgresEnquoteValue(v) ==
    CASE v.kind \in {"int", "bool"} -> FmtV(v)
      [] v.kind = "string" -> <<"'", v.s, "'">>
      [] OTHER -> <<"panic">>

\* SQLServer.enquoteValue
SQLServerEnquoteValue(v) ==
    CASE v.kind = "int" -> FmtV(v)
      [] v.kind = "string" -> <<"N'", v.s, "'">>
      [] v.kind = "bool" -> <<IF v.n = 1 THEN "1" ELSE "0">>
      [] OTHER -> <<"panic">>

Dialects == {"postgres", "sqlserver"}

\* the base.Enquoter of a client
Enquote(dialect, v) ==
    IF dialect = "postgres" THEN PostgresEnquoteValue(v) ELSE SQLServerEnquoteValue(v)

----------------------------------------------------------------------------
(* Text helpers: strings.Join and strings.TrimRight(s, " ") *)

RECURSIVE Join(_, _)
Join(parts, sep) ==
    IF parts = <<>> THEN <<>>
    ELSE IF Len(parts) = 1 THEN parts[1]
    ELSE parts[1] \o sep \o Join(Tail(parts), sep)

RECURSIVE TrimRight(_)
TrimRight(s) ==
    IF s # <<>> /\ s[Len(s)] = SP THEN TrimRight(SubSeq(s, 1, Len(s) - 1)) ELSE s

----------------------------------------------------------------------------
(* base.RecordData *)

Keys == {"id", "name", "rate"}

Values == {IntV(1), StrV("Test")}

EmptyMap == [k \in {} |-> NilV]

MapGet(m, k) == IF k \in DOMAIN m THEN m[k] ELSE NilV

MapPut(m, k, v) == [x \in (DOMAIN m) \cup {k} |-> IF x = k THEN v ELSE m[x]]

MapDelete(m, k) == [x \in (DOMAIN m) \ {k} |-> m[x]]

\* RecordData.Zero: fresh empty map and fresh empty slice
Zero(d) == [data |-> EmptyMap, keys |-> <<>>, dataNil |-> FALSE, keysNil |-> FALSE]

\* base.ZeroRecordData
ZeroRecordData == Zero([data |-> EmptyMap, keys |-> <<>>, dataNil |-> TRUE, keysNil |-> TRUE])

Length(d) == Cardinality(DOMAIN d.data)

GetColumns(d) == d.keys

Get(d, k) == MapGet(d.data, k)

\* a Set that appends the key whether or not the map holds it
SetAlwaysAppends(d, key, value) ==
    LET z == IF d.dataNil \/ d.keysNil THEN Zero(d) ELSE d
    IN  [z EXCEPT !.keys = Append(z.keys, key), !.data = MapPut(z.data, key, value)]

\* RecordData.Set
Set(d, key, value) ==
    LET z == IF d.dataNil \/ d.keysNil THEN Zero(d) ELSE d
        ks == IF key \notin DOMAIN z.data THEN Append(z.keys, key) ELSE z.keys
    IN  [z EXCEPT !.keys = ks, !.data = MapPut(z.data, key, value)]

\* the slice without its first element equal to key
RECURSIVE RemoveFirst(_, _)
RemoveFirst(ks, key) ==
    IF ks = <<>> THEN <<>>
    ELSE IF ks[1] = key THEN Tail(ks)
    ELSE <<ks[1]>> \o RemoveFirst(Tail(ks), key)

\* a RenameKey that forgets to drop the old name from the key list
RenameKeyKeepsOldKey(d, currentName, newName) ==
    IF newName \in DOMAIN d.data
    THEN [d |-> d, err |-> TRUE]
    ELSE [d |-> [d EXCEPT !.keys = Append(d.keys, newName),
                          !.data = MapDelete(MapPut(d.data, newName, MapGet(d.data, currentName)),
                                             currentName)],
          err |-> FALSE]

\* RecordData.RenameKey on a container whose map is allocated
RenameKey(d, currentName, newName) ==
    IF newName \in DOMAIN d.data
    THEN [d |-> d, err |-> TRUE]
    ELSE [d |-> [d EXCEPT !.keys = RemoveFirst(Append(d.keys, newName), currentName),
                          !.data = MapDelete(MapPut(d.data, newName, MapGet(d.data, currentName)),
                                             currentName)],
          err |-> FALSE]

----------------------------------------------------------------------------
(* Idle values of the variables an operation does not use *)

NoArg == [key |-> "", value |-> NilV, newName |-> "", id |-> NilV, data |-> ZeroRecordData,
          conditions |-> <<>>, insert |-> FALSE, table |-> <<>>, info |-> <<>>,
          index |-> [columns |-> <<>>, unique |-> FALSE]]

NoDrv == [outcome |-> "none", count |-> 0]

NoRet == [data |-> ZeroRecordData, set |-> <<>>, count |-> 0, err |-> FALSE, panic |-> FALSE]

\* a nil base.MongoCollection, and a nil base.MongoQuery
NilCollection == ""

NilQuery == [nil |-> TRUE, collection |-> NilCollection, filter |-> <<>>]

NoMongoQuery == [query |-> NilQuery, collection |-> NilCollection, queryMap |-> <<>>]

NoModel == [driver |-> "none", client |-> 0]

\* the parts of the state the record container and the SQL layer do not use
NoMapping ==
    /\ mq = NoMongoQuery
    /\ db = {}
    /\ schemes = <<>>
    /\ model = NoModel
    /\ conns = <<>>

NoQuery == [table |-> "", conditions |-> <<>>, enquoter |-> "postgres",
            sorts |-> <<>>, limit |-> 0, offset |-> 0]

----------------------------------------------------------------------------
(* Specification of the record container alone *)

InitRecord ==
    /\ rd = ZeroRecordData
    /\ client = "postgres"
    /\ q = NoQuery
    /\ op = "ZeroRecordData"
    /\ arg = NoArg
    /\ drv = NoDrv
    /\ sent = <<>>
    /\ whereClause = <<>>
    /\ ret = NoRet
    /\ NoMapping

DoSet ==
    \E k \in Keys, v \in Values :
        /\ rd' = Set(rd, k, v)
        /\ op' = "Set"
        /\ arg' = [NoArg EXCEPT !.key = k, !.value = v]
        /\ ret' = NoRet
        /\ UNCHANGED <<client, q, drv, sent, whereClause, mq, db, schemes, model, conns>>

DoZero ==
    /\ rd' = Zero(rd)
    /\ op' = "Zero"
    /\ arg' = NoArg
    /\ ret' = NoRet
    /\ UNCHANGED <<client, q, drv, sent, whereClause, mq, db, schemes, model, conns>>

DoRenameKey ==
    \E cur \in Keys, new \in Keys :
        LET r == RenameKey(rd, cur, new)
        IN  /\ rd' = r.d
            /\ op' = "RenameKey"
            /\ arg' = [NoArg EXCEPT !.key = cur, !.newName = new]
            /\ ret' = [NoRet EXCEPT !.err = r.err]
            /\ UNCHANGED <<client, q, drv, sent, whereClause, mq, db, schemes, model, conns>>

NextRecord == DoSet \/ DoZero \/ DoRenameKey

SpecRecord == InitRecord /\ [][NextRecord]_vars

----------------------------------------------------------------------------
(* Properties of the record container *)

KeySet(d) == {d.keys[i] : i \in 1..Len(d.keys)}

NoDuplicateKeys(d) == \A i, j \in 1..Len(d.keys) : d.keys[i] = d.keys[j] => i = j

\* C3: in every state reached from ZeroRecordData by Set, Zero and RenameKey
\* the key list has no duplicate, its keys are exactly the keys of the map
\* (Length() = number of columns), and a zeroed container is empty.
C3_KeysMirrorMap ==
    /\ NoDuplicateKeys(rd)
    /\ KeySet(rd) = DOMAIN rd.data
    /\ Length(rd) = Len(GetColumns(rd))
    /\ op \in {"Zero", "ZeroRecordData"} => rd.keys = <<>> /\ rd.data = EmptyMap

\* C3 witness: a rename moved a key of a container holding other keys
C3_Witness ==
    /\ op = "RenameKey"
    /\ ~ret.err
    /\ Len(rd.keys) = 2
    /\ rd.keys[2] = arg.newName
    /\ arg.key # arg.newName
    /\ arg.key \notin DOMAIN rd.data

\* C4: Set of an absent key appends it and keeps the earlier keys in order;
\* Set of a present key changes that key's value alone.
C4_SetKeepsOrder ==
    [][op' = "Set" =>
        LET k == arg'.key
        IN  /\ k \notin DOMAIN rd.data =>
                /\ GetColumns(rd') = GetColumns(rd) \o <<k>>
            /\ k \in DOMAIN rd.data =>
                /\ GetColumns(rd') = GetColumns(rd)
            /\ Get(rd', k) = arg'.value
            /\ \A o \in (DOMAIN rd.data) \ {k} : Get(rd', o) = Get(rd, o)
            /\ DOMAIN rd'.data = (DOMAIN rd.data) \cup {k}
    ]_vars

\* C4 witness: the first of several keys was set again and kept its place
C4_Witness ==
    /\ op = "Set"
    /\ Len(rd.keys) = 3
    /\ rd.keys[1] = arg.key
    /\ Get(rd, arg.key) = arg.value

----------------------------------------------------------------------------
(* Conditions (package term) and sorts (base.Sort) *)

Cond(t, f, v) == [term |-> t, field |-> f, value |-> v, values |-> <<>>]

\* term.In{Field, Values}
InCond(f, vs) == [term |-> "In", field |-> f, value |-> NilV, values |-> vs]

ConditionPool ==
    { Cond("Equal", "age", IntV(19)),
      Cond("NotEqual", "team", StrV("City")),
      Cond("GreaterThan", "rate", IntV(8)),
      Cond("GreaterThanEqual", "age", IntV(10)),
      Cond("LessThan", "cards", IntV(2)),
      Cond("LessThanEqual", "cards", BoolV(TRUE)),
      InCond("grade", <<StrV("A"), IntV(2)>>),
      InCond("grade", <<>>),
      Cond("IsNull", "banned", NilV),
      Cond("NotNull", "trophies", NilV) }

\* the conditions used where the builder's options vary as well
OptionConditionPool ==
    { Cond("NotEqual", "team", StrV("City")),
      InCond("grade", <<StrV("A"), IntV(2)>>),
      Cond("IsNull", "banned", NilV) }

\* every condition list of at most MaxConds members of pool
ConditionLists(pool) == UNION {[1..n -> pool] : n \in 0..MaxConds}

Sort(c, d) == [Column |-> c, Descending |-> d]

SortLists == { <<>>, <<Sort("age", FALSE)>>, <<Sort("rate", TRUE), Sort("name", FALSE)>> }

LimitValues == {-1, 0, 2}

OffsetValues == {-1, 0, 3}

TableName == "players"

----------------------------------------------------------------------------
(* The records of the destination table, and what a condition selects *)

Document(age, team, rate, cards, grade, banned, trophies) ==
    [f \in {"age", "team", "rate", "cards", "grade", "banned", "trophies"} |->
        CASE f = "age" -> age
          [] f = "team" -> team
          [] f = "rate" -> rate
          [] f = "cards" -> cards
          [] f = "grade" -> grade
          [] f = "banned" -> banned
          [] OTHER -> trophies]

\* the records the destination table holds
StoredRows ==
    { Document(IntV(19), StrV("City"), IntV(9), IntV(1), StrV("A"), NilV, IntV(3)),
      Document(IntV(12), StrV("United"), IntV(8), IntV(2), IntV(2), BoolV(TRUE), NilV),
      Document(IntV(9), StrV("United"), IntV(3), IntV(5), StrV("B"), NilV, IntV(1)) }

\* ordering of two values: defined between numbers only
Less(a, b) == a.kind = "int" /\ b.kind = "int" /\ a.n < b.n

\* whether the value `x` of a field passes the comparison `term` with `c`
Compare(term, x, c) ==
    CASE term = "Equal" -> x = c.value
      [] term = "NotEqual" -> x # c.value
      [] term = "GreaterThan" -> Less(c.value, x)
      [] term = "GreaterThanEqual" -> Less(c.value, x) \/ x = c.value
      [] term = "LessThan" -> Less(x, c.value)
      [] term = "LessThanEqual" -> Less(x, c.value) \/ x = c.value
      [] term = "In" -> \E i \in 1..Len(c.values) : c.values[i] = x
      [] term = "IsNull" -> x = NilV
      [] OTHER -> x # NilV

\* whether the record satisfies one condition, and every condition of a list
Satisfies(doc, c) == Compare(c.term, doc[c.field], c)

SatisfiesAll(doc, cs) == \A i \in 1..Len(cs) : Satisfies(doc, cs[i])

----------------------------------------------------------------------------
(* sqlQuery: rendering *)

\* the operand list of an IN clause: every member through the enquoter
InValues(dialect, vs) == Join([i \in 1..Len(vs) |-> Enquote(dialect, vs[i])], <<",", SP>>)

Binary(dialect, c, symbol) == <<c.field, SP, symbol, SP>> \o Enquote(dialect, c.value)

\* one case of the type switch of parseWhere; <<>> when no case matches
WhereClauseOf(dialect, c) ==
    CASE c.term = "Equal" -> Binary(dialect, c, "=")
      [] c.term = "NotEqual" -> Binary(dialect, c, "!=")
      [] c.term = "GreaterThan" -> Binary(dialect, c, ">")
      [] c.term = "GreaterThanEqual" -> Binary(dialect, c, ">=")
      [] c.term = "LessThan" -> Binary(dialect, c, "<")
      [] c.term = "LessThanEqual" -> Binary(dialect, c, "<=")
      [] c.term = "IsNull" -> <<c.field, SP, "IS", SP, "NULL">>
      [] c.term = "NotNull" -> <<c.field, SP, "IS", SP, "NOT", SP, "NULL">>
      [] c.term = "In" -> <<c.field, SP, "IN", SP, "(">> \o InValues(dialect, c.values) \o <<")">>
      [] OTHER -> <<>>

RECURSIVE WhereClauses(_, _)
WhereClauses(dialect, cs) ==
    IF cs = <<>> THEN <<>>
    ELSE LET cl == WhereClauseOf(dialect, cs[1])
         IN  (IF cl = <<>> THEN <<>> ELSE <<cl>>) \o WhereClauses(dialect, Tail(cs))

\* a parseWhere that joins its clauses with OR
parseWhereJoinsOr(qq) == Join(WhereClauses(qq.enquoter, qq.conditions), <<SP, "OR", SP>>)

\* sqlQuery.parseWhere
parseWhere(qq) == Join(WhereClauses(qq.enquoter, qq.conditions), <<SP, "AND", SP>>)

SortText(s) == <<s.Column, SP, IF s.Descending THEN "DESC" ELSE "ASC">>

\* a parseOptions that renders a LIMIT of zero
parseOptionsLimitZero(qq) ==
    TrimRight(
        (IF qq.limit >= 0 THEN <<"LIMIT", SP, ToString(qq.limit), SP>> ELSE <<>>)
        \o (IF qq.offset > 0 THEN <<"OFFSET", SP, ToString(qq.offset), SP>> ELSE <<>>)
        \o (IF Len(qq.sorts) > 0
            THEN <<"ORDER", SP, "BY", SP>>
                 \o Join([i \in 1..Len(qq.sorts) |-> SortText(qq.sorts[i])], <<",", SP>>)
            ELSE <<>>))

\* sqlQuery.parseOptions
parseOptions(qq) ==
    TrimRight(
        (IF qq.limit > 0 THEN <<"LIMIT", SP, ToString(qq.limit), SP>> ELSE <<>>)
        \o (IF qq.offset > 0 THEN <<"OFFSET", SP, ToString(qq.offset), SP>> ELSE <<>>)
        \o (IF Len(qq.sorts) > 0
            THEN <<"ORDER", SP, "BY", SP>>
                 \o Join([i \in 1..Len(qq.sorts) |-> SortText(qq.sorts[i])], <<",", SP>>)
            ELSE <<>>))

\* sqlQuery.parseChanges
parseChanges(qq, data) ==
    Join([i \in 1..Len(GetColumns(data)) |->
            <<GetColumns(data)[i], SP, "=", SP>>
            \o Enquote(qq.enquoter, Get(data, GetColumns(data)[i]))],
         <<",", SP>>)

\* the statement text of sqlQuery.All
AllQuery(qq) ==
    LET w == parseWhere(qq)
        o == parseOptions(qq)
    IN  IF w # <<>>
        THEN TrimRight(<<"SELECT", SP, "*", SP, "FROM", SP, qq.table, SP, "WHERE", SP>>
                       \o w \o <<SP>> \o o)
        ELSE TrimRight(<<"SELECT", SP, "*", SP, "FROM", SP, qq.table, SP>> \o o)

\* the statement text of sqlQuery.First, qq being the builder after q.limit = 1
FirstQuery(qq) ==
    TrimRight(<<"SELECT", SP, "*", SP, "FROM", SP, qq.table, SP, "WHERE", SP>>
              \o parseWhere(qq) \o <<SP>> \o parseOptions(qq))

\* the statement text of sqlQuery.Update
UpdateQuery(qq, data) ==
    <<"UPDATE", SP, qq.table, SP, "SET", SP>> \o parseChanges(qq, data)
    \o <<SP, "WHERE", SP>> \o parseWhere(qq)

\* the statement text of sqlQuery.Delete
DeleteQuery(qq) ==
    <<"DELETE", SP, "FROM", SP, qq.table, SP, "WHERE", SP>> \o parseWhere(qq)

----------------------------------------------------------------------------
(* The driver: rows of a result set, and reading them *)

\* the row a successful query returns, in the driver's column order
DriverRow == <<[col |-> "id", val |-> IntV(1)], [col |-> "name", val |-> StrV("Test")]>>

\* outcomes of session.Query followed by reading one row
QueryOutcomes == {"queryError", "noRows", "scanError", "row"}

\* outcomes of session.Exec: a result with no error, a result with an error,
\* and no result (nil) with an error
ExecOutcomes == {"ok", "errorWithResult", "errorNilResult"}

RowCounts == {0, 7}

\* columns[i] after rows.Scan: every column on success, the first `scanned`
\* columns when Scan failed at column scanned + 1, nil for the rest
RECURSIVE SetColumns(_, _, _, _)
SetColumns(d, row, i, scanned) ==
    IF i > Len(row) THEN d
    ELSE SetColumns(Set(d, row[i].col, IF i <= scanned THEN row[i].val ELSE NilV),
                    row, i + 1, scanned)

\* fetchSingleRecord(rows, data) -> [d, err], rows holding `row` when the
\* outcome has one
fetchSingleRecord(row, outcome, scanned, data) ==
    CASE outcome = "row" -> [d |-> SetColumns(data, row, 1, Len(row)), err |-> FALSE]
      [] outcome = "scanError" -> [d |-> SetColumns(data, row, 1, scanned), err |-> TRUE]
      [] OTHER -> [d |-> Zero(data), err |-> TRUE]

\* fetchResults(rows) -> [set, err]: n rows read, or a Scan failure
fetchResults(outcome, n) ==
    IF outcome = "scanError"
    THEN [set |-> <<>>, err |-> TRUE]
    ELSE [set |-> [i \in 1..n |-> SetColumns(ZeroRecordData, DriverRow, 1, Len(DriverRow))],
          err |-> FALSE]

\* prepareUpdate(data, enquoter)
prepareUpdate(dialect, data) ==
    Join([i \in 1..Len(GetColumns(data)) |->
            <<GetColumns(data)[i], SP, "=", SP>>
            \o Enquote(dialect, Get(data, GetColumns(data)[i]))],
         <<",", SP>>)

----------------------------------------------------------------------------
(* sqlQuery: operations *)

\* newSQLQuery(session, table, conditions, enquoter), as Postgres.Query and
\* SQLServer.Query call it
newSQLQuery(table, conditions, enquoter) ==
    [table |-> table, conditions |-> conditions, enquoter |-> enquoter,
     sorts |-> <<>>, limit |-> 0, offset |-> 0]

\* the change sets handed to Update and UpdateByID
UpdateDatas ==
    { ZeroRecordData,
      Set(ZeroRecordData, "name", StrV("Test")),
      Set(Set(ZeroRecordData, "rate", IntV(5)), "name", StrV("Up")) }

InitQuery ==
    /\ rd = ZeroRecordData
    /\ client \in Dialects
    /\ \E cs \in ConditionLists(OptionConditionPool) : q = newSQLQuery(TableName, cs, client)
    /\ op = "Query"
    /\ arg = NoArg
    /\ drv = NoDrv
    /\ sent = <<>>
    /\ whereClause = <<>>
    /\ ret = NoRet
    /\ NoMapping

Idle == /\ arg' = NoArg
        /\ drv' = NoDrv
        /\ sent' = <<>>
        /\ whereClause' = <<>>
        /\ ret' = NoRet
        /\ UNCHANGED <<rd, client, mq, db, schemes, model, conns>>

OrderBy ==
    \E sorts \in SortLists :
        /\ q' = [q EXCEPT !.sorts = sorts]
        /\ op' = "OrderBy"
        /\ Idle

Limit ==
    \E n \in LimitValues :
        /\ q' = [q EXCEPT !.limit = n]
        /\ op' = "Limit"
        /\ Idle

Skip ==
    \E n \in OffsetValues :
        /\ q' = [q EXCEPT !.offset = n]
        /\ op' = "Skip"
        /\ Idle

\* the statement sqlQuery.Count sends
CountQuery(qq) ==
    <<"SELECT", SP, "COUNT(*)", SP, "AS", SP, "count", SP, "FROM", SP, qq.table>>

\* the condition list whose predicate a count statement carries: none when
\* the statement ends at the table name
CountedConditions(dialect, statement, pool) ==
    { cs \in ConditionLists(pool) :
        statement = <<"SELECT", SP, "COUNT(*)", SP, "AS", SP, "count", SP, "FROM", SP, TableName>>
                    \o (IF cs = <<>> THEN <<>>
                        ELSE <<SP, "WHERE", SP>> \o WhereClauses(dialect, cs)) }

\* the row the backend answers to a count statement: the number of stored
\* rows the statement's predicate selects
CountRow(dialect, statement, pool) ==
    LET cs == CHOOSE c \in CountedConditions(dialect, statement, pool) : TRUE
    IN  <<[col |-> "count",
           val |-> IntV(Cardinality({r \in StoredRows : SatisfiesAll(r, cs)}))]>>

\* data.Get("count").(int): the assertion faults on anything but an int
CountReturn(d, err) ==
    IF Get(d, "count").kind = "int"
    THEN [NoRet EXCEPT !.count = Get(d, "count").n, !.err = err]
    ELSE [NoRet EXCEPT !.panic = TRUE]

Count ==
    \E outcome \in QueryOutcomes :
        LET data == Set(ZeroRecordData, "count", IntV(0))
            row == CountRow(client, CountQuery(q), OptionConditionPool)
        IN  /\ op' = "Count"
            /\ arg' = NoArg
            /\ whereClause' = <<>>
            /\ sent' = <<CountQuery(q)>>
            /\ drv' = [outcome |-> outcome,
                       count |-> IF outcome = "row" THEN row[1].val.n ELSE 0]
            /\ ret' = IF outcome = "queryError"
                      THEN CountReturn(data, TRUE)
                      ELSE LET r == fetchSingleRecord(row, outcome, 0, data)
                           IN  CountReturn(r.d, r.err)
            /\ UNCHANGED <<rd, client, q, mq, db, schemes, model, conns>>

All ==
    \E outcome \in QueryOutcomes, n \in {1, 2} :
        /\ outcome # "row" => n = 1
        /\ op' = "All"
        /\ arg' = NoArg
        /\ whereClause' = parseWhere(q)
        /\ sent' = <<AllQuery(q)>>
        /\ drv' = [outcome |-> outcome, count |-> IF outcome = "row" THEN n ELSE 0]
        /\ ret' = IF outcome = "queryError"
                  THEN [NoRet EXCEPT !.err = TRUE]
                  ELSE LET r == fetchResults(outcome, drv'.count)
                       IN  [NoRet EXCEPT !.set = r.set, !.err = r.err]
        /\ UNCHANGED <<rd, client, q, mq, db, schemes, model, conns>>

\* a First that leaves the builder's limit as it was
FirstLimitKept(qq) == qq

\* q.limit = 1 in sqlQuery.First
FirstLimit(qq) == [qq EXCEPT !.limit = 1]

First ==
    \E outcome \in QueryOutcomes, scanned \in 0..(Len(DriverRow) - 1) :
        /\ outcome # "scanError" => scanned = 0
        /\ op' = "First"
        /\ arg' = NoArg
        /\ whereClause' = parseWhere(q)
        /\ q' = FirstLimit(q)
        /\ sent' = <<FirstQuery(q')>>
        /\ drv' = [outcome |-> outcome, count |-> scanned]
        /\ ret' = IF outcome = "queryError"
                  THEN [NoRet EXCEPT !.data = ZeroRecordData, !.err = TRUE]
                  ELSE LET r == fetchSingleRecord(DriverRow, outcome, scanned, ZeroRecordData)
                       IN  [NoRet EXCEPT !.data = r.d, !.err = r.err]
        /\ UNCHANGED <<rd, client, mq, db, schemes, model, conns>>

\* an Update that checks nothing
UpdateNeverPanics(data) == FALSE

\* the guard of sqlQuery.Update: panic("change data could not be empty")
UpdatePanics(data) == Length(data) = 0

\* res.RowsAffected() and the return of Update and Delete: a nil result faults
ExecReturn(outcome, count) ==
    IF outcome = "errorNilResult"
    THEN [NoRet EXCEPT !.panic = TRUE]
    ELSE [NoRet EXCEPT !.count = count, !.err = (outcome # "ok")]

Update ==
    \E data \in UpdateDatas, outcome \in ExecOutcomes, count \in RowCounts :
        /\ outcome = "errorNilResult" => count = 0
        /\ op' = "Update"
        /\ arg' = [NoArg EXCEPT !.data = data]
        /\ IF UpdatePanics(data)
           THEN /\ outcome = "ok" /\ count = 0
                /\ whereClause' = <<>>
                /\ sent' = <<>>
                /\ drv' = NoDrv
                /\ ret' = [NoRet EXCEPT !.panic = TRUE]
           ELSE /\ whereClause' = parseWhere(q)
                /\ sent' = <<UpdateQuery(q, data)>>
                /\ drv' = [outcome |-> outcome, count |-> count]
                /\ ret' = ExecReturn(outcome, count)
        /\ UNCHANGED <<rd, client, q, mq, db, schemes, model, conns>>

Delete ==
    \E outcome \in ExecOutcomes, count \in RowCounts :
        /\ outcome = "errorNilResult" => count = 0
        /\ op' = "Delete"
        /\ arg' = NoArg
        /\ whereClause' = parseWhere(q)
        /\ sent' = <<DeleteQuery(q)>>
        /\ drv' = [outcome |-> outcome, count |-> count]
        /\ ret' = ExecReturn(outcome, count)
        /\ UNCHANGED <<rd, client, q, mq, db, schemes, model, conns>>

NextQuery == OrderBy \/ Limit \/ Skip \/ Count \/ All \/ First \/ Update \/ Delete

SpecQuery == InitQuery /\ [][NextQuery]_vars

\* the statement carries the option LIMIT n
RendersLimit(statement, n) ==
    \E i \in 1..(Len(statement) - 2) :
        /\ statement[i] = "LIMIT"
        /\ statement[i + 1] = SP
        /\ statement[i + 2] = ToString(n)

\* C28: First leaves the builder with limit 1 and with the conditions,
\* offset and sorts it had; only Limit and First change the limit; and an
\* All on a builder of limit 1 sends a statement with LIMIT 1.  So after
\* First every All renders LIMIT 1 until Limit is called again.
C28_FirstKeepsLimitOne ==
    [][/\ op' = "First" =>
            /\ q'.limit = 1
            /\ q'.conditions = q.conditions
            /\ q'.offset = q.offset
            /\ q'.sorts = q.sorts
            /\ q'.table = q.table
       /\ op' \notin {"First", "Limit"} => q'.limit = q.limit
       /\ (op' = "All" /\ q.limit = 1) =>
            /\ RendersLimit(sent'[1], 1)
            /\ \A n \in LimitValues : ~RendersLimit(sent'[1], n)]_vars

\* an All after First (no Limit gives 1), on a builder that has an offset
\* and two sorts
C28_Witness ==
    /\ op = "All"
    /\ q.limit = 1
    /\ q.offset = 3
    /\ Len(q.sorts) = 2
    /\ Len(q.conditions) > 0
    /\ RendersLimit(sent[1], 1)

(* The builder as Query(table, conditions...) returns it, over every
   condition list, with the operations that render the predicate *)

InitWhere ==
    /\ rd = ZeroRecordData
    /\ client \in Dialects
    /\ \E cs \in ConditionLists(ConditionPool) : q = newSQLQuery(TableName, cs, client)
    /\ op = "Query"
    /\ arg = NoArg
    /\ drv = NoDrv
    /\ sent = <<>>
    /\ whereClause = <<>>
    /\ ret = NoRet
    /\ NoMapping

NextWhere == All \/ First \/ Update \/ Delete

SpecWhere == InitWhere /\ [][NextWhere]_vars

----------------------------------------------------------------------------
(* Postgres and SQLServer: operations by id *)

IDs == {IntV(7), StrV("abc"), BoolV(TRUE)}

\* the id column as each client spells it
IDColumn(dialect) == IF dialect = "postgres" THEN "id" ELSE "ID"

\* the statement text of Postgres.FindByID and SQLServer.FindByID
FindByIDQuery(dialect, table, id) ==
    <<"SELECT", SP, "*", SP, "FROM", SP, table, SP, "WHERE", SP, IDColumn(dialect), SP, "=", SP>>
    \o FmtV(id)

\* the statement text of Postgres.UpdateByID and SQLServer.UpdateByID
UpdateByIDQuery(dialect, table, id, data) ==
    <<"UPDATE", SP, table, SP, "SET", SP>> \o prepareUpdate(dialect, data)
    \o <<SP, "WHERE", SP, IDColumn(dialect), SP, "=", SP>> \o FmtV(id)

\* the statement text of Postgres.DeleteByID and SQLServer.DeleteByID
DeleteByIDQuery(dialect, table, id) ==
    <<"DELETE", SP, "FROM", SP, table, SP, "WHERE", SP, IDColumn(dialect), SP, "=", SP>>
    \o FmtV(id)

InitClient ==
    /\ rd = ZeroRecordData
    /\ client \in Dialects
    /\ q = NoQuery
    /\ op = "NewClient"
    /\ arg = NoArg
    /\ drv = NoDrv
    /\ sent = <<>>
    /\ whereClause = <<>>
    /\ ret = NoRet
    /\ NoMapping

FindByID ==
    \E id \in IDs, outcome \in QueryOutcomes, scanned \in 0..(Len(DriverRow) - 1) :
        /\ outcome # "scanError" => scanned = 0
        /\ op' = "FindByID"
        /\ arg' = [NoArg EXCEPT !.id = id]
        /\ sent' = <<FindByIDQuery(client, TableName, id)>>
        /\ drv' = [outcome |-> outcome, count |-> scanned]
        /\ ret' = IF outcome = "queryError"
                  THEN [NoRet EXCEPT !.data = ZeroRecordData, !.err = TRUE]
                  ELSE LET r == fetchSingleRecord(DriverRow, outcome, scanned, ZeroRecordData)
                       IN  IF r.err
                           THEN [NoRet EXCEPT !.data = Zero(r.d), !.err = TRUE]
                           ELSE [NoRet EXCEPT !.data = r.d]
        /\ UNCHANGED <<rd, client, q, whereClause, mq, db, schemes, model, conns>>

UpdateByID ==
    \E id \in IDs, data \in UpdateDatas, outcome \in ExecOutcomes :
        /\ op' = "UpdateByID"
        /\ arg' = [NoArg EXCEPT !.id = id, !.data = data]
        /\ sent' = <<UpdateByIDQuery(client, TableName, id, data)>>
        /\ drv' = [outcome |-> outcome, count |-> 0]
        /\ ret' = [NoRet EXCEPT !.err = (outcome # "ok")]
        /\ UNCHANGED <<rd, client, q, whereClause, mq, db, schemes, model, conns>>

DeleteByID ==
    \E id \in IDs, outcome \in ExecOutcomes :
        /\ op' = "DeleteByID"
        /\ arg' = [NoArg EXCEPT !.id = id]
        /\ sent' = <<DeleteByIDQuery(client, TableName, id)>>
        /\ drv' = [outcome |-> outcome, count |-> 0]
        /\ ret' = [NoRet EXCEPT !.err = (outcome # "ok")]
        /\ UNCHANGED <<rd, client, q, whereClause, mq, db, schemes, model, conns>>

NextClient == FindByID \/ UpdateByID \/ DeleteByID

SpecClient == InitClient /\ [][NextClient]_vars

----------------------------------------------------------------------------
(* Properties of the SQL builder *)

C1_Symbol(t) ==
    CASE t = "Equal" -> "="
      [] t = "NotEqual" -> "!="
      [] t = "GreaterThan" -> ">"
      [] t = "GreaterThanEqual" -> ">="
      [] t = "LessThan" -> "<"
      [] t = "LessThanEqual" -> "<="

RECURSIVE C1_CommaList(_, _)
C1_CommaList(dialect, vs) ==
    IF vs = <<>> THEN <<>>
    ELSE Enquote(dialect, vs[1])
         \o (IF Len(vs) > 1 THEN <<",", SP>> \o C1_CommaList(dialect, Tail(vs)) ELSE <<>>)

C1_Clause(dialect, c) ==
    IF c.term = "IsNull" THEN <<c.field, SP, "IS", SP, "NULL">>
    ELSE IF c.term = "NotNull" THEN <<c.field, SP, "IS", SP, "NOT", SP, "NULL">>
    ELSE IF c.term = "In"
         THEN <<c.field, SP, "IN", SP, "(">> \o C1_CommaList(dialect, c.values) \o <<")">>
    ELSE <<c.field, SP, C1_Symbol(c.term), SP>> \o Enquote(dialect, c.value)

RECURSIVE C1_Predicate(_, _)
C1_Predicate(dialect, cs) ==
    IF cs = <<>> THEN <<>>
    ELSE C1_Clause(dialect, cs[1])
         \o (IF Len(cs) > 1 THEN <<SP, "AND", SP>> \o C1_Predicate(dialect, Tail(cs)) ELSE <<>>)

\* an operation that rendered the predicate of the builder's conditions
RenderedWhere == op \in {"All", "First", "Delete"} \/ (op = "Update" /\ ~UpdatePanics(arg.data))

\* C1: the predicate rendered for a condition list is one clause per
\* condition, in input order, joined with " AND ", each clause being the
\* field, the operator's symbol and the value(s) as the dialect's quoting
\* function renders them (IN () for an empty list).
C1_PredicatePerCondition ==
    RenderedWhere => whereClause = C1_Predicate(q.enquoter, q.conditions)

\* C1 witness: an IN clause and a != clause of SQL Server, joined by AND
C1_Witness ==
    /\ op = "All"
    /\ q.enquoter = "sqlserver"
    /\ q.conditions = <<InCond("grade", <<StrV("A"), IntV(2)>>), Cond("NotEqual", "team", StrV("City"))>>
    /\ whereClause = <<"grade", SP, "IN", SP, "(", "N'", "A", "'", ",", SP, "2", ")",
                       SP, "AND", SP, "team", SP, "!=", SP, "N'", "City", "'">>

C2_NonEmpty(clause) == clause # <<>>

\* the clauses of the SELECT statement, each empty when it is left out
C2_Clauses ==
    << <<"SELECT", SP, "*", SP, "FROM", SP, q.table>>,
       IF whereClause # <<>> THEN <<"WHERE", SP>> \o whereClause ELSE <<>>,
       IF q.limit > 0 THEN <<"LIMIT", SP, ToString(q.limit)>> ELSE <<>>,
       IF q.offset > 0 THEN <<"OFFSET", SP, ToString(q.offset)>> ELSE <<>>,
       IF q.sorts # <<>>
       THEN <<"ORDER", SP, "BY", SP>>
            \o Join([i \in 1..Len(q.sorts) |->
                       <<q.sorts[i].Column, SP, IF q.sorts[i].Descending THEN "DESC" ELSE "ASC">>],
                    <<",", SP>>)
       ELSE <<>> >>

\* C2: All() sends SELECT * FROM <table>, then WHERE <predicate> when the
\* predicate is non-empty, LIMIT n when limit > 0, OFFSET n when offset > 0,
\* ORDER BY ... when sorts were given, in this order, separated by single
\* blanks and with no trailing blank.
C2_AllStatement ==
    op = "All" =>
        /\ Len(sent) = 1
        /\ sent[1] = Join(SelectSeq(C2_Clauses, C2_NonEmpty), <<SP>>)
        /\ sent[1][Len(sent[1])] # SP
        /\ \A i \in 1..(Len(sent[1]) - 1) : ~(sent[1][i] = SP /\ sent[1][i + 1] = SP)

\* C2 witness: a statement carrying all four optional clauses
C2_Witness ==
    /\ op = "All"
    /\ sent = << <<"SELECT", SP, "*", SP, "FROM", SP, "players", SP,
                   "WHERE", SP, "banned", SP, "IS", SP, "NULL", SP,
                   "LIMIT", SP, "2", SP, "OFFSET", SP, "3", SP,
                   "ORDER", SP, "BY", SP, "rate", SP, "DESC", ",", SP, "name", SP, "ASC">> >>

EndsWith(s, suffix) ==
    /\ Len(s) >= Len(suffix)
    /\ SubSeq(s, Len(s) - Len(suffix) + 1, Len(s)) = suffix

Contains(s, sub) == \E j \in 1..Len(s) : SubSeq(s, j, j + Len(sub) - 1) = sub

\* C5: every caller-supplied value in a statement is rendered by the
\* dialect's quoting function: the id of FindByID, UpdateByID and DeleteByID,
\* the values of an update, and the values of the conditions.
C5_ValuesQuoted ==
    /\ op \in {"FindByID", "UpdateByID", "DeleteByID"} =>
           EndsWith(sent[1], <<"=", SP>> \o Enquote(client, arg.id))
    /\ op = "UpdateByID" =>
           \A i \in 1..Len(GetColumns(arg.data)) :
               Contains(sent[1], <<GetColumns(arg.data)[i], SP, "=", SP>>
                                 \o Enquote(client, Get(arg.data, GetColumns(arg.data)[i])))
    /\ RenderedWhere => whereClause = C1_Predicate(q.enquoter, q.conditions)

\* C6: the statement First() sends is the statement All() would send with
\* the limit forced to 1.
C6_FirstIsAllWithLimitOne ==
    op = "First" => sent = <<AllQuery([q EXCEPT !.limit = 1])>>

\* the zero container: no columns and an empty map
IsZeroContainer(d) == d.keys = <<>> /\ d.data = EmptyMap

\* C7: a non-nil error from First or FindByID comes with the zero container.
C7_ErrorReturnsZeroContainer ==
    op \in {"First", "FindByID"} /\ ret.err => IsZeroContainer(ret.data)

\* C8: Update with a container naming no column panics before anything is
\* sent to the driver, whatever the conditions.
C8_EmptyUpdatePanics ==
    op = "Update" /\ GetColumns(arg.data) = <<>> => ret.panic /\ sent = <<>>

\* C8 witness: the panic of an empty update on a builder with two conditions
C8_Witness ==
    /\ op = "Update"
    /\ arg.data = ZeroRecordData
    /\ Len(q.conditions) = 2
    /\ ret.panic
    /\ sent = <<>>

\* C9: once Update or Delete has sent its statement it returns the driver's
\* rows-affected count and execution error, for every driver outcome, and
\* does not fault.
C9_ExecReturnsCountAndError ==
    op \in {"Update", "Delete"} /\ sent # <<>> =>
        /\ ~ret.panic
        /\ ret.count = drv.count
        /\ ret.err = (drv.outcome # "ok")

Atoms(s) == {s[i] : i \in 1..Len(s)}

\* C10: with no condition, the statement of Update and Delete carries no
\* WHERE keyword.
C10_NoWhereWithoutConditions ==
    op \in {"Update", "Delete"} /\ q.conditions = <<>> /\ sent # <<>> =>
        "WHERE" \notin Atoms(sent[1])

----------------------------------------------------------------------------
(* Properties of Count *)

\* C11: sqlQuery.Count returns a pair for every driver outcome: (0, nil) on
\* an empty result set, (0, err) on a driver error, and otherwise the value
\* of the count column with a nil error.
C11_CountReturnsPair ==
    op = "Count" =>
        /\ ~ret.panic
        /\ drv.outcome = "noRows" => (ret.count = 0 /\ ~ret.err)
        /\ drv.outcome = "queryError" => (ret.count = 0 /\ ret.err)
        /\ drv.outcome = "row" => (ret.count = drv.count /\ ~ret.err)

\* C12: Count returns the number of records of the destination table that
\* the query selects: all of them when the condition list is empty, those
\* matching every condition otherwise.
C12_CountsSelectedRecords ==
    (op = "Count" /\ drv.outcome = "row") =>
        ret.count = Cardinality({r \in StoredRows : SatisfiesAll(r, q.conditions)})

----------------------------------------------------------------------------
(* MongoDB: the filter document, and the document query builder *)

CollectionName == "players"

\* what parseConditions stores under the field of one condition
QueryEntry(c) ==
    [operator |-> CASE c.term = "Equal" -> ""
                    [] c.term = "GreaterThan" -> "$gt"
                    [] c.term = "GreaterThanEqual" -> "$gte"
                    [] c.term = "In" -> "$in"
                    [] c.term = "IsNull" -> "$eq"
                    [] c.term = "LessThan" -> "$lt"
                    [] c.term = "LessThanEqual" -> "$lte"
                    [] OTHER -> "$ne",
     value |-> c.value,
     values |-> c.values]

\* MongoDB.parseConditions: queryMap[condition.GetField()] = ... for each
\* condition in turn
RECURSIVE parseConditions(_)
parseConditions(conditions) ==
    IF conditions = <<>> THEN EmptyMap
    ELSE LET n == Len(conditions)
         IN  MapPut(parseConditions(SubSeq(conditions, 1, n - 1)),
                    conditions[n].field, QueryEntry(conditions[n]))

\* whether the value `x` of a field passes one entry of a filter document
EntryMatches(x, e) ==
    CASE e.operator = "" -> x = e.value
      [] e.operator = "$eq" -> x = e.value
      [] e.operator = "$ne" -> x # e.value
      [] e.operator = "$gt" -> Less(e.value, x)
      [] e.operator = "$gte" -> Less(e.value, x) \/ x = e.value
      [] e.operator = "$lt" -> Less(x, e.value)
      [] e.operator = "$lte" -> Less(x, e.value) \/ x = e.value
      [] OTHER -> \E i \in 1..Len(e.values) : e.values[i] = x

\* whether a document satisfies a filter document: every entry passes
FilterMatches(doc, filter) ==
    \A f \in DOMAIN filter : EntryMatches(doc[f], filter[f])

\* queryMongoDB: c.GetCollection(collection).Find(conditions)
queryMongoDB(collection, conditions) ==
    [nil |-> FALSE, collection |-> collection, filter |-> conditions]

\* newMongoQuery(query, collection, queryMap)
newMongoQuery(query, collection, queryMap) ==
    [query |-> query, collection |-> NilCollection, queryMap |-> <<>>]

\* a document after {"$set": set}
ApplySet(doc, data) ==
    [f \in DOMAIN doc \cup KeySet(data) |->
        IF f \in KeySet(data) THEN Get(data, f) ELSE doc[f]]

InitMongo ==
    /\ rd = ZeroRecordData
    /\ client = "mongo"
    /\ q = NoQuery
    /\ op = "NewMongoDB"
    /\ arg = NoArg
    /\ drv = NoDrv
    /\ sent = <<>>
    /\ whereClause = <<>>
    /\ ret = NoRet
    /\ mq = NoMongoQuery
    /\ db = StoredRows
    /\ schemes = <<>>
    /\ model = NoModel
    /\ conns = <<>>

\* MongoDB.Query(collectionName, conditions...)
MongoDBQuery ==
    \E conditions \in ConditionLists(ConditionPool) :
        LET queryMap == parseConditions(conditions)
            query == queryMongoDB(CollectionName, queryMap)
        IN  /\ mq' = newMongoQuery(query, CollectionName, queryMap)
            /\ op' = "MongoDB.Query"
            /\ arg' = [NoArg EXCEPT !.conditions = conditions]
            /\ drv' = NoDrv
            /\ ret' = NoRet
            /\ UNCHANGED <<rd, client, q, sent, whereClause, db, schemes, model, conns>>

\* mongoQuery.Count: q.query.Count()
MongoCount ==
    \E outcome \in {"ok", "error"} :
        /\ ~mq.query.nil
        /\ op' = "mongoQuery.Count"
        /\ arg' = NoArg
        /\ drv' = [outcome |-> outcome,
                   count |-> IF outcome = "ok"
                             THEN Cardinality({d \in db : FilterMatches(d, mq.query.filter)})
                             ELSE 0]
        /\ ret' = [NoRet EXCEPT !.count = drv'.count, !.err = (outcome = "error")]
        /\ UNCHANGED <<rd, client, q, sent, whereClause, mq, db, schemes, model, conns>>

\* mongoQuery.Update(data): q.collection.UpdateAll(q.queryMap, {"$set": set}),
\* then changeInfo.Updated; a nil collection and a nil changeInfo fault
MongoUpdate ==
    \E data \in UpdateDatas, outcome \in ExecOutcomes :
        /\ ~mq.query.nil
        /\ op' = "mongoQuery.Update"
        /\ arg' = [NoArg EXCEPT !.data = data]
        /\ IF mq.collection = NilCollection
           THEN /\ outcome = "ok"
                /\ drv' = NoDrv
                /\ ret' = [NoRet EXCEPT !.panic = TRUE]
                /\ db' = db
           ELSE LET matching == {d \in db : FilterMatches(d, mq.queryMap)}
                IN  /\ drv' = [outcome |-> outcome,
                               count |-> IF outcome = "ok" THEN Cardinality(matching) ELSE 0]
                    /\ ret' = ExecReturn(outcome, drv'.count)
                    /\ db' = IF outcome = "ok"
                             THEN (db \ matching) \cup {ApplySet(d, data) : d \in matching}
                             ELSE db
        /\ UNCHANGED <<rd, client, q, sent, whereClause, mq, schemes, model, conns>>

\* mongoQuery.Delete(): q.collection.RemoveAll(q.queryMap), then changeInfo.Removed
MongoDelete ==
    \E outcome \in ExecOutcomes :
        /\ ~mq.query.nil
        /\ op' = "mongoQuery.Delete"
        /\ arg' = NoArg
        /\ IF mq.collection = NilCollection
           THEN /\ outcome = "ok"
                /\ drv' = NoDrv
                /\ ret' = [NoRet EXCEPT !.panic = TRUE]
                /\ db' = db
           ELSE LET matching == {d \in db : FilterMatches(d, mq.queryMap)}
                IN  /\ drv' = [outcome |-> outcome,
                               count |-> IF outcome = "ok" THEN Cardinality(matching) ELSE 0]
                    /\ ret' = ExecReturn(outcome, drv'.count)
                    /\ db' = IF outcome = "ok" THEN db \ matching ELSE db
        /\ UNCHANGED <<rd, client, q, sent, whereClause, mq, schemes, model, conns>>

NextMongo == MongoDBQuery \/ MongoCount \/ MongoUpdate \/ MongoDelete

SpecMongo == InitMongo /\ [][NextMongo]_vars

\* C13: on a builder obtained from MongoDB.Query, Update(data) applies
\* {"$set": data} to every document matching the filter and returns the
\* updated-count, Delete() removes every matching document and returns the
\* removed-count, and both return 0 and no error when nothing matches.
C13_UpdateDeleteApplyToMatching ==
    [][LET matching == {d \in db : FilterMatches(d, mq.query.filter)}
       IN  /\ op' = "mongoQuery.Update" =>
                /\ ~ret'.panic
                /\ db' = (db \ matching) \cup {ApplySet(d, arg'.data) : d \in matching}
                /\ ret'.count = Cardinality(matching)
                /\ matching = {} => ~ret'.err
           /\ op' = "mongoQuery.Delete" =>
                /\ ~ret'.panic
                /\ db' = db \ matching
                /\ ret'.count = Cardinality(matching)
                /\ matching = {} => ~ret'.err]_vars

\* C14: the filter document parseConditions builds selects a document if
\* and only if the document satisfies every condition of the list, also
\* when two conditions name the same field.
C14_FilterIsConjunction ==
    op = "MongoDB.Query" =>
        \A d \in StoredRows :
            FilterMatches(d, mq.query.filter) <=> SatisfiesAll(d, arg.conditions)

----------------------------------------------------------------------------
(* Schemes: the fields of a scheme, and the mapping to and from a record
   container *)

OidV(hex) == [kind |-> "oid", n |-> 0, s |-> hex]

StructV == [kind |-> "struct", n |-> 0, s |-> ""]

Field(name, column, kind, tags) ==
    [name |-> name, column |-> column, kind |-> kind,
     ignore |-> "ignore" \in tags, nullable |-> "null" \in tags,
     anonymous |-> "anonymous" \in tags, exported |-> ~("unexported" \in tags)]

\* the fields of the scheme under test, in declaration order
SchemeFields ==
    << Field("Scheme", "scheme", "struct", {"anonymous"}),
       Field("ID", "id", "int", {}),
       Field("Name", "name", "string", {}),
       Field("Age", "age", "int", {"null"}),
       Field("Token", "token", "oid", {}),
       Field("Password", "password", "string", {"ignore"}),
       Field("note", "note", "string", {"unexported"}) >>

FieldNames == {SchemeFields[i].name : i \in 1..Len(SchemeFields)}

\* scheme.GetKeyName()
GetKeyName == "id"

\* a scheme instance: the value of each field
Instance(id, name, age, token) ==
    [f \in FieldNames |->
        CASE f = "Scheme" -> StructV
          [] f = "ID" -> id
          [] f = "Name" -> name
          [] f = "Age" -> age
          [] f = "Token" -> token
          [] f = "Password" -> StrV("secret")
          [] OTHER -> StrV("memo")]

Instances ==
    { Instance(id, name, age, token) :
        id \in {IntV(0), IntV(7)}, name \in {StrV(""), StrV("Test")},
        age \in {IntV(0), IntV(18)}, token \in {OidV(""), OidV("5f")} }

\* the condition under which both mappings look at a field
Eligible(f) == ~f.ignore /\ ~f.anonymous /\ f.exported

\* isZero(value) and isObjectID(value)
isZero(v) == v.n = 0 /\ v.s = ""

isObjectID(v) == v.kind = "oid"

\* shouldSkipField(insert, nullable, value, fieldName, scheme)
shouldSkipField(insert, nullable, value, fieldName) ==
    IF fieldName = GetKeyName THEN TRUE
    ELSE IF insert THEN (nullable /\ isZero(value)) \/ (isObjectID(value) /\ isZero(value))
    ELSE FALSE

\* Model.isEmpty(value): nil or the empty string, an ObjectId through its Hex()
isEmpty(v) == v.kind = "nil" \/ (v.kind \in {"string", "oid"} /\ v.s = "")

\* the test of Model.generateRecordData that makes its loop `continue`
ModelSkipsField(insert, value, fieldName) ==
    (insert /\ isEmpty(value)) \/ (~insert /\ fieldName = GetKeyName)

\* the loop over the fields from the i-th on, of generateRecordData
\* (inModel = FALSE) and of Model.generateRecordData (inModel = TRUE)
RECURSIVE GenerateFrom(_, _, _, _, _)
GenerateFrom(inst, i, data, insert, inModel) ==
    IF i > Len(SchemeFields) THEN data
    ELSE LET f == SchemeFields[i]
             v == inst[f.name]
             skip == IF inModel THEN ModelSkipsField(insert, v, f.column)
                     ELSE shouldSkipField(insert, f.nullable, v, f.column)
         IN  GenerateFrom(inst, i + 1,
                          IF Eligible(f) /\ ~skip THEN Set(data, f.column, v) ELSE data,
                          insert, inModel)

\* generateRecordData(scheme, insert)
generateRecordData(inst, insert) == GenerateFrom(inst, 1, ZeroRecordData, insert, FALSE)

\* Model.generateRecordData(scheme, insert)
ModelGenerateRecordData(inst, insert) == GenerateFrom(inst, 1, ZeroRecordData, insert, TRUE)

\* setFieldValue(scheme, field, value) -> [inst, panic]: the type assertion
\* of the field's kind faults on a nil value and on a value of another kind
setFieldValue(inst, f, value) ==
    IF \/ f.kind = "int" /\ value.kind = "int"
       \/ f.kind \in {"string", "oid"} /\ value.kind \in {"string", "oid"}
    THEN [inst |-> [inst EXCEPT ![f.name] = value], panic |-> FALSE]
    ELSE [inst |-> inst, panic |-> TRUE]

\* the loop of fillScheme over the fields from the i-th on; with
\* `checked`, a field is set only if its column is in the data
RECURSIVE FillFrom(_, _, _, _)
FillFrom(inst, i, data, checked) ==
    IF i > Len(SchemeFields) THEN [inst |-> inst, panic |-> FALSE]
    ELSE LET f == SchemeFields[i]
         IN  IF Eligible(f) /\ (checked => f.column \in DOMAIN data)
             THEN LET r == setFieldValue(inst, f, MapGet(data, f.column))
                  IN  IF r.panic THEN r ELSE FillFrom(r.inst, i + 1, data, checked)
             ELSE FillFrom(inst, i + 1, data, checked)

\* fillScheme(scheme, data)
fillScheme(inst, data) == FillFrom(inst, 1, data, TRUE)

\* Model.fillScheme(scheme, data)
ModelFillScheme(inst, data) == FillFrom(inst, 1, data, FALSE)

\* the value a result holds in each column
ColumnValue(column) ==
    CASE column = "id" -> IntV(7)
      [] column = "name" -> StrV("Test")
      [] column = "age" -> IntV(18)
      [] column = "token" -> OidV("5f")
      [] OTHER -> StrV("other")

\* the record containers handed to fillScheme: every choice of columns
FillDatas ==
    { [data |-> [c \in cols |-> ColumnValue(c)],
       keys |-> SelectSeq(<<"id", "name", "age", "token", "password", "note">>,
                          LAMBDA c : c \in cols),
       dataNil |-> FALSE, keysNil |-> FALSE] :
        cols \in SUBSET {"id", "name", "age", "token", "password", "note"} }

InitScheme ==
    /\ rd = ZeroRecordData
    /\ client = "postgres"
    /\ q = NoQuery
    /\ op = "new"
    /\ arg = NoArg
    /\ drv = NoDrv
    /\ sent = <<>>
    /\ whereClause = <<>>
    /\ ret = NoRet
    /\ mq = NoMongoQuery
    /\ db = {}
    /\ \E inst \in Instances : schemes = <<inst>>
    /\ model = NoModel
    /\ conns = <<>>

GenerateRecordData ==
    \E insert \in BOOLEAN :
        /\ op' = "generateRecordData"
        /\ arg' = [NoArg EXCEPT !.insert = insert]
        /\ ret' = [NoRet EXCEPT !.data = generateRecordData(schemes[1], insert)]
        /\ UNCHANGED <<rd, client, q, drv, sent, whereClause, mq, db, schemes, model, conns>>

ModelGenerate ==
    \E insert \in BOOLEAN :
        /\ op' = "Model.generateRecordData"
        /\ arg' = [NoArg EXCEPT !.insert = insert]
        /\ ret' = [NoRet EXCEPT !.data = ModelGenerateRecordData(schemes[1], insert)]
        /\ UNCHANGED <<rd, client, q, drv, sent, whereClause, mq, db, schemes, model, conns>>

FillScheme ==
    \E data \in FillDatas :
        LET r == fillScheme(schemes[1], data.data)
        IN  /\ op' = "fillScheme"
            /\ arg' = [NoArg EXCEPT !.data = data]
            /\ schemes' = <<r.inst>>
            /\ ret' = [NoRet EXCEPT !.panic = r.panic]
            /\ UNCHANGED <<rd, client, q, drv, sent, whereClause, mq, db, model, conns>>

ModelFill ==
    \E data \in FillDatas :
        LET r == ModelFillScheme(schemes[1], data.data)
        IN  /\ op' = "Model.fillScheme"
            /\ arg' = [NoArg EXCEPT !.data = data]
            /\ schemes' = <<r.inst>>
            /\ ret' = [NoRet EXCEPT !.panic = r.panic]
            /\ UNCHANGED <<rd, client, q, drv, sent, whereClause, mq, db, model, conns>>

NextScheme == GenerateRecordData \/ ModelGenerate \/ FillScheme \/ ModelFill

SpecScheme == InitScheme /\ [][NextScheme]_vars

\* the rule of omission the mapping is described by
C15_Omitted(f, v, insert) ==
    IF insert
    THEN (f.nullable /\ isZero(v)) \/ (isObjectID(v) /\ isZero(v))
    ELSE f.column = GetKeyName

\* C15: generateRecordData sets the column of every eligible field except,
\* on insert, a nullable field holding its zero value and a zero object
\* identifier, and on update exactly the primary-key column; a non-zero
\* primary key is written on insert.
C15_SerializeOmitsByRule ==
    op \in {"generateRecordData", "Model.generateRecordData"} =>
        \A i \in 1..Len(SchemeFields) :
            LET f == SchemeFields[i]
                v == schemes[1][f.name]
            IN  /\ f.column \in KeySet(ret.data) <=>
                        (Eligible(f) /\ ~C15_Omitted(f, v, arg.insert))
                /\ f.column \in KeySet(ret.data) => Get(ret.data, f.column) = v

\* C16: fillScheme assigns the eligible fields whose column is in the
\* container; every other field keeps its value, and an absent column
\* causes no fault.
C16_FillAssignsPresentOnly ==
    [][op' \in {"fillScheme", "Model.fillScheme"} =>
        /\ ~ret'.panic
        /\ \A i \in 1..Len(SchemeFields) :
              LET f == SchemeFields[i]
              IN  schemes'[1][f.name] =
                      IF Eligible(f) /\ f.column \in DOMAIN arg'.data.data
                      THEN arg'.data.data[f.column]
                      ELSE schemes[1][f.name]]_vars

----------------------------------------------------------------------------
(* Slices in Postgres: the literal enquoteSliceValue writes, the array
   literal the backend returns, and setFieldValue reading it back.  Text is
   a sequence of atoms in which every digit and every one of
   ' " \ , | : { } is an atom of its own. *)

MaxSlice == 2

DQ == "\""

BS == "\\"

Digit(d) == <<"0", "1", "2", "3", "4", "5", "6", "7", "8", "9">>[d + 1]

\* the decimal digits of a natural number
RECURSIVE Itoa(_)
Itoa(n) == IF n < 10 THEN <<Digit(n)>> ELSE Itoa(n \div 10) \o <<Digit(n % 10)>>

RECURSIVE StripZeros(_)
StripZeros(ds) ==
    IF Len(ds) > 1 /\ ds[Len(ds)] = "0" THEN StripZeros(SubSeq(ds, 1, Len(ds) - 1)) ELSE ds

\* fmt.Sprintf("%v", item) of the float64 that json.Unmarshal makes of a
\* whole number: plain digits below 1e6, mantissa and exponent from there
FormatFloat(n) ==
    LET ds == Itoa(n)
        exp == Len(ds) - 1
        m == StripZeros(ds)
    IN  IF exp < 6 THEN ds
        ELSE <<m[1]>> \o (IF Len(m) > 1 THEN <<".">> \o Tail(m) ELSE <<>>)
             \o <<"e", "+">> \o (IF exp < 10 THEN <<"0">> ELSE <<>>) \o Itoa(exp)

\* elements of a slice: a whole number, or a map with one key
IntElem(n) == [n |-> n, key |-> <<>>, val |-> <<>>]

MapElem(key, val) == [n |-> 0, key |-> key, val |-> val]

IntElems == {IntElem(2), IntElem(13), IntElem(1000000)}

MapElems ==
    { MapElem(key, val) :
        key \in {<<"a">>, <<"c">>}, val \in {<<"b">>, <<"d">>, <<"x", ",", "y">>} }

Slices ==
    UNION { {[kind |-> "int", items |-> items] : items \in [1..n -> IntElems]}
            \cup {[kind |-> "map", items |-> items] : items \in [1..n -> MapElems]} :
            n \in 0..MaxSlice }

\* json.Marshal of a map with one key
Marshal(e) == <<"{", DQ>> \o e.key \o <<DQ, ":", DQ>> \o e.val \o <<DQ, "}">>

\* Postgres.enquoteSliceValue(i)
enquoteSliceValue(slice) ==
    IF slice.kind = "int"
    THEN <<"'", "{">>
         \o Join([i \in 1..Len(slice.items) |-> FormatFloat(slice.items[i].n)], <<",">>)
         \o <<"}", "'">>
    ELSE <<"array[">>
         \o Join([i \in 1..Len(slice.items) |-> <<"'">> \o Marshal(slice.items[i]) \o <<"'">>],
                 <<",">>)
         \o <<"]::json[]">>

\* the text the backend reads as the array `slice`
ArrayInput(slice) ==
    IF slice.kind = "int"
    THEN <<"'", "{">>
         \o Join([i \in 1..Len(slice.items) |-> Itoa(slice.items[i].n)], <<",">>)
         \o <<"}", "'">>
    ELSE <<"array[">>
         \o Join([i \in 1..Len(slice.items) |-> <<"'">> \o Marshal(slice.items[i]) \o <<"'">>],
                 <<",">>)
         \o <<"]::json[]">>

\* an element of a json[] in the backend's output: quoted, with every
\* double quote and backslash escaped
RECURSIVE Escape(_)
Escape(t) ==
    IF t = <<>> THEN <<>>
    ELSE (IF t[1] \in {DQ, BS} THEN <<BS, t[1]>> ELSE <<t[1]>>) \o Escape(Tail(t))

\* the array literal the backend returns for a stored array
ArrayOutput(slice) ==
    <<"{">>
    \o Join([i \in 1..Len(slice.items) |->
                IF slice.kind = "int" THEN Itoa(slice.items[i].n)
                ELSE <<DQ>> \o Escape(Marshal(slice.items[i])) \o <<DQ>>],
            <<",">>)
    \o <<"}">>

HasSub(t, sub) ==
    \E j \in 1..(Len(t) - Len(sub) + 1) : SubSeq(t, j, j + Len(sub) - 1) = sub

\* strings.Replace(t, old, new, -1)
RECURSIVE ReplaceAll(_, _, _)
ReplaceAll(t, old, new) ==
    IF Len(t) < Len(old) THEN t
    ELSE IF SubSeq(t, 1, Len(old)) = old
         THEN new \o ReplaceAll(SubSeq(t, Len(old) + 1, Len(t)), old, new)
         ELSE <<t[1]>> \o ReplaceAll(Tail(t), old, new)

\* strings.Split(t, sep): one piece more than there are separators
RECURSIVE Split(_, _)
Split(t, sep) ==
    IF \A i \in 1..Len(t) : t[i] # sep THEN <<t>>
    ELSE LET i == CHOOSE k \in 1..Len(t) : t[k] = sep /\ \A j \in 1..(k - 1) : t[j] # sep
         IN  <<SubSeq(t, 1, i - 1)>> \o Split(SubSeq(t, i + 1, Len(t)), sep)

RECURSIVE DigitsValue(_)
DigitsValue(ds) ==
    IF ds = <<>> THEN 0
    ELSE 10 * DigitsValue(SubSeq(ds, 1, Len(ds) - 1))
         + (CHOOSE d \in 0..9 : Digit(d) = ds[Len(ds)])

\* strconv.Atoi(value) -> [ok, elem]
Atoi(value) ==
    IF value # <<>> /\ \A i \in 1..Len(value) : \E d \in 0..9 : Digit(d) = value[i]
    THEN [ok |-> TRUE, elem |-> IntElem(DigitsValue(value))]
    ELSE [ok |-> FALSE, elem |-> IntElem(0)]

\* json.Unmarshal(text, &jsonMap) -> [ok, elem]
Unmarshal(text) ==
    IF \E e \in MapElems : Marshal(e) = text
    THEN [ok |-> TRUE, elem |-> CHOOSE e \in MapElems : Marshal(e) = text]
    ELSE [ok |-> FALSE, elem |-> MapElem(<<>>, <<>>)]

\* makeSliceValue(elem, value) -> [ok, elem]; not ok is a panic
makeSliceValue(kind, value) ==
    IF kind = "int" THEN Atoi(value)
    ELSE LET stripped == SelectSeq(value, LAMBDA c : c # BS)
         IN  IF Len(stripped) < 2 THEN [ok |-> FALSE, elem |-> MapElem(<<>>, <<>>)]
             ELSE Unmarshal(SubSeq(stripped, 2, Len(stripped) - 1))

\* setFieldValue, reflect.Slice case -> [items, panic]
setSliceValue(kind, value) ==
    LET t == SubSeq(value, 2, Len(value) - 1)
        values == IF HasSub(t, <<DQ, ",", DQ>>)
                  THEN Split(ReplaceAll(t, <<DQ, ",", DQ>>, <<DQ, "|", DQ>>), "|")
                  ELSE Split(t, ",")
        made == [i \in 1..Len(values) |-> makeSliceValue(kind, values[i])]
    IN  IF \A i \in 1..Len(made) : made[i].ok
        THEN [items |-> [i \in 1..Len(made) |-> made[i].elem], panic |-> FALSE]
        ELSE [items |-> <<>>, panic |-> TRUE]

InitCodec ==
    /\ rd = ZeroRecordData
    /\ client = "postgres"
    /\ q = NoQuery
    /\ op = "new"
    /\ arg = NoArg
    /\ drv = NoDrv
    /\ sent = <<>>
    /\ whereClause = <<>>
    /\ ret = NoRet
    /\ mq = NoMongoQuery
    /\ db = {}
    /\ \E slice \in Slices : schemes = <<slice>>
    /\ model = NoModel
    /\ conns = <<>>

\* the slice field of schemes[1] written to the table: enquoteValue renders
\* it, and the backend stores the array if it can read the text
EnquoteSliceValue ==
    LET text == enquoteSliceValue(schemes[1])
        accepted == text = ArrayInput(schemes[1])
    IN  /\ op' = "enquoteValue"
        /\ arg' = NoArg
        /\ sent' = <<text>>
        /\ drv' = [outcome |-> IF accepted THEN "ok" ELSE "queryError", count |-> 0]
        /\ db' = IF accepted THEN {schemes[1]} ELSE db
        /\ ret' = [NoRet EXCEPT !.err = ~accepted]
        /\ schemes' = <<schemes[1]>>
        /\ UNCHANGED <<rd, client, q, whereClause, mq, model, conns>>

\* the stored array read back into the slice field of a new scheme
SetSliceField ==
    \E stored \in db :
        LET r == setSliceValue(stored.kind, ArrayOutput(stored))
        IN  /\ op' = "setFieldValue"
            /\ arg' = NoArg
            /\ sent' = <<>>
            /\ drv' = [outcome |-> "row", count |-> 0]
            /\ ret' = [NoRet EXCEPT !.panic = r.panic]
            /\ schemes' = IF r.panic THEN <<schemes[1]>>
                          ELSE <<schemes[1], [kind |-> stored.kind, items |-> r.items]>>
            /\ UNCHANGED <<rd, client, q, whereClause, mq, db, model, conns>>

NextCodec == EnquoteSliceValue \/ SetSliceField

SpecCodec == InitCodec /\ [][NextCodec]_vars

\* the array literal {e1,...,en} of a slice of whole numbers
C17_ArrayLiteral(items) ==
    <<"{">> \o Join([i \in 1..Len(items) |-> Itoa(items[i].n)], <<",">>) \o <<"}">>

\* C17: a slice of whole numbers is written as the array literal
\* {e1,...,en}, a slice of one-key maps as array['<json1>',...]::json[], and
\* the array literal the backend returns for either reads back as the
\* original slice.
C17_SliceRoundTrip ==
    /\ (op = "enquoteValue" /\ schemes[1].kind = "int") =>
            sent[1] = <<"'">> \o C17_ArrayLiteral(schemes[1].items) \o <<"'">>
    /\ (op = "enquoteValue" /\ schemes[1].kind = "map") =>
            /\ sent[1][1] = "array["
            /\ sent[1][Len(sent[1])] = "]::json[]"
            /\ SubSeq(sent[1], 2, Len(sent[1]) - 1) =
                   Join([i \in 1..Len(schemes[1].items) |->
                            <<"'">> \o Marshal(schemes[1].items[i]) \o <<"'">>], <<",">>)
    /\ op = "setFieldValue" => (~ret.panic /\ Len(schemes) = 2 /\ schemes[2] = schemes[1])

----------------------------------------------------------------------------
(* Model: the client it holds *)

MaxClients == 3

Drivers == {"mongo", "mssql", "postgres", "invalid"}

\* a PrepareClient that makes a client whether or not one is held
PrepareClientAlways(m, cs, dial) ==
    IF m.driver \in {"mongo", "mssql", "postgres"} /\ dial = "ok"
    THEN [model |-> [m EXCEPT !.client = Len(cs) + 1],
          conns |-> Append(cs, [closed |-> 0]), panic |-> FALSE]
    ELSE [model |-> m, conns |-> cs, panic |-> TRUE]

\* Model.PrepareClient -> [model, conns, panic]: the constructors panic when
\* the connection cannot be opened, and so does an unknown driver
PrepareClient(m, cs, dial) ==
    IF m.client # 0
    THEN [model |-> m, conns |-> cs, panic |-> FALSE]
    ELSE IF m.driver \in {"mongo", "mssql", "postgres"} /\ dial = "ok"
         THEN [model |-> [m EXCEPT !.client = Len(cs) + 1],
               conns |-> Append(cs, [closed |-> 0]), panic |-> FALSE]
         ELSE [model |-> m, conns |-> cs, panic |-> TRUE]

\* Model.CloseClient -> [model, conns]
CloseClient(m, cs) ==
    IF m.client # 0
    THEN [model |-> [m EXCEPT !.client = 0],
          conns |-> [cs EXCEPT ![m.client].closed = @ + 1]]
    ELSE [model |-> m, conns |-> cs]

InitModel ==
    /\ rd = ZeroRecordData
    /\ client = "none"
    /\ q = NoQuery
    /\ op = "Initiate"
    /\ arg = NoArg
    /\ drv = NoDrv
    /\ sent = <<>>
    /\ whereClause = <<>>
    /\ ret = NoRet
    /\ mq = NoMongoQuery
    /\ db = {}
    /\ schemes = <<>>
    /\ \E driver \in Drivers : model = [driver |-> driver, client |-> 0]
    /\ conns = <<>>

\* a call of m.PrepareClient()
ModelPrepareClient ==
    \E dial \in {"ok", "error"} :
        LET p == PrepareClient(model, conns, dial)
        IN  /\ Len(p.conns) <= MaxClients
            /\ model.client # 0 => dial = "ok"
            /\ op' = "PrepareClient"
            /\ model' = p.model
            /\ conns' = p.conns
            /\ drv' = [outcome |-> dial, count |-> p.model.client]
            /\ ret' = [NoRet EXCEPT !.panic = p.panic]
            /\ UNCHANGED <<rd, client, q, arg, sent, whereClause, mq, db, schemes>>

\* a call of m.CloseClient()
ModelCloseClient ==
    LET c == CloseClient(model, conns)
    IN  /\ op' = "CloseClient"
        /\ model' = c.model
        /\ conns' = c.conns
        /\ drv' = NoDrv
        /\ ret' = NoRet
        /\ UNCHANGED <<rd, client, q, arg, sent, whereClause, mq, db, schemes>>

\* m.PrepareClient(); defer m.CloseClient(); then a body that ends in
\* `body`: "ok", "error" (an error is returned) or "panic"
\* -> [enabled, model, conns, drv, ret]
ModelOperation(m, cs, dial, body) ==
    LET p == PrepareClient(m, cs, dial)
        c == CloseClient(p.model, p.conns)
    IN  [enabled |-> /\ Len(p.conns) <= MaxClients
                     /\ m.client # 0 => dial = "ok"
                     /\ p.panic => body = "panic",
         model |-> IF p.panic THEN p.model ELSE c.model,
         conns |-> IF p.panic THEN p.conns ELSE c.conns,
         drv |-> [outcome |-> IF p.panic THEN "none" ELSE body, count |-> p.model.client],
         ret |-> [NoRet EXCEPT !.err = (~p.panic /\ body = "error"),
                               !.panic = (p.panic \/ body = "panic")]]

\* Model.EnsureIndex: an error of the client is a panic
ModelEnsureIndex ==
    \E dial \in {"ok", "error"}, body \in {"ok", "panic"} :
        LET r == ModelOperation(model, conns, dial, body)
        IN  /\ r.enabled
            /\ op' = "EnsureIndex"
            /\ model' = r.model
            /\ conns' = r.conns
            /\ drv' = r.drv
            /\ ret' = r.ret
            /\ UNCHANGED <<rd, client, q, arg, sent, whereClause, mq, db, schemes>>

\* Model.Find
ModelFind ==
    \E dial \in {"ok", "error"}, body \in {"ok", "error", "panic"} :
        LET r == ModelOperation(model, conns, dial, body)
        IN  /\ r.enabled
            /\ op' = "Find"
            /\ model' = r.model
            /\ conns' = r.conns
            /\ drv' = r.drv
            /\ ret' = r.ret
            /\ UNCHANGED <<rd, client, q, arg, sent, whereClause, mq, db, schemes>>

\* Model.Where
ModelWhere ==
    \E dial \in {"ok", "error"}, body \in {"ok", "panic"} :
        LET r == ModelOperation(model, conns, dial, body)
        IN  /\ r.enabled
            /\ op' = "Where"
            /\ model' = r.model
            /\ conns' = r.conns
            /\ drv' = r.drv
            /\ ret' = r.ret
            /\ UNCHANGED <<rd, client, q, arg, sent, whereClause, mq, db, schemes>>

\* Model.Create
ModelCreate ==
    \E dial \in {"ok", "error"}, body \in {"ok", "error", "panic"} :
        LET r == ModelOperation(model, conns, dial, body)
        IN  /\ r.enabled
            /\ op' = "Create"
            /\ model' = r.model
            /\ conns' = r.conns
            /\ drv' = r.drv
            /\ ret' = r.ret
            /\ UNCHANGED <<rd, client, q, arg, sent, whereClause, mq, db, schemes>>

\* Model.Update
ModelUpdate ==
    \E dial \in {"ok", "error"}, body \in {"ok", "error", "panic"} :
        LET r == ModelOperation(model, conns, dial, body)
        IN  /\ r.enabled
            /\ op' = "Update"
            /\ model' = r.model
            /\ conns' = r.conns
            /\ drv' = r.drv
            /\ ret' = r.ret
            /\ UNCHANGED <<rd, client, q, arg, sent, whereClause, mq, db, schemes>>

\* Model.Delete
ModelDelete ==
    \E dial \in {"ok", "error"}, body \in {"ok", "error", "panic"} :
        LET r == ModelOperation(model, conns, dial, body)
        IN  /\ r.enabled
            /\ op' = "Delete"
            /\ model' = r.model
            /\ conns' = r.conns
            /\ drv' = r.drv
            /\ ret' = r.ret
            /\ UNCHANGED <<rd, client, q, arg, sent, whereClause, mq, db, schemes>>

NextModel ==
    \/ ModelPrepareClient \/ ModelCloseClient
    \/ ModelEnsureIndex \/ ModelFind \/ ModelWhere
    \/ ModelCreate \/ ModelUpdate \/ ModelDelete

SpecModel == InitModel /\ [][NextModel]_vars

\* the clients that are open
Live == {i \in 1..Len(conns) : conns[i].closed = 0}

\* C19: a Model holds at most one live client: a client is made only when
\* none is held, and when EnsureIndex, Find, Where, Create, Update or
\* Delete has returned, normally or by a panic, every client made so far
\* has been closed exactly once and the model holds none.
C19_OneLiveClient ==
    /\ Cardinality(Live) <= 1
    /\ \A i \in 1..Len(conns) : conns[i].closed <= 1
    /\ model.client # 0 => Live = {model.client}
    /\ op \in {"EnsureIndex", "Find", "Where", "Create", "Update", "Delete"} =>
           (model.client = 0 /\ \A i \in 1..Len(conns) : conns[i].closed = 1)

C19_Witness ==
    /\ op = "Create"
    /\ drv.outcome = "panic"
    /\ drv.count = 2
    /\ Len(conns) = 2
    /\ conns[2].closed = 1
    /\ model.client = 0

----------------------------------------------------------------------------
(* Builder.All: the schemes it returns.  schemes[1] is the scheme of the
   builder, ret.set holds the addresses of the returned schemes. *)

MaxRows == 2

ZeroInstance ==
    [f \in FieldNames |->
        CASE f = "Scheme" -> StructV
          [] f \in {"ID", "Age"} -> IntV(0)
          [] f = "Token" -> OidV("")
          [] OTHER -> StrV("")]

\* the record data of a row
RowData(id, name) ==
    Set(Set(ZeroRecordData, "id", id), "name", name)

Rows == {RowData(IntV(7), StrV("Test")), RowData(IntV(0), StrV("")),
         RowData(IntV(7), StrV(""))}

DataSets == UNION {[1..n -> Rows] : n \in 0..MaxRows}

InitBuilder ==
    /\ rd = ZeroRecordData
    /\ client = "postgres"
    /\ q = NoQuery
    /\ op = "NewBuilder"
    /\ arg = NoArg
    /\ drv = NoDrv
    /\ sent = <<>>
    /\ whereClause = <<>>
    /\ ret = NoRet
    /\ mq = NoMongoQuery
    /\ db = {}
    /\ \E inst \in Instances : schemes = <<inst>>
    /\ model = [driver |-> "postgres", client |-> 1]
    /\ conns = <<[closed |-> 0]>>

\* fillScheme(b.scheme, row) for each row in turn, on the one scheme
RECURSIVE FillEach(_, _, _)
FillEach(inst, dataSet, i) ==
    IF i > Len(dataSet) THEN inst
    ELSE FillEach(fillScheme(inst, dataSet[i].data).inst, dataSet, i + 1)

\* Builder.All, the scheme of the builder filled and appended for each row
BuilderAll ==
    \E outcome \in {"queryError", "rows"}, dataSet \in DataSets :
        /\ conns[1].closed = 0
        /\ outcome = "queryError" => dataSet = <<>>
        /\ op' = "Builder.All"
        /\ drv' = [outcome |-> outcome, count |-> Len(dataSet), rows |-> dataSet]
        /\ conns' = [conns EXCEPT ![1].closed = @ + 1]
        /\ IF outcome = "queryError"
           THEN /\ ret' = [NoRet EXCEPT !.err = TRUE]
                /\ schemes' = schemes
           ELSE /\ ret' = [NoRet EXCEPT !.set = [i \in 1..Len(dataSet) |-> 1]]
                /\ schemes' = <<FillEach(schemes[1], dataSet, 1)>>
        /\ UNCHANGED <<rd, client, q, arg, sent, whereClause, mq, db, model>>

\* Builder.All, a new scheme made, filled and appended for each row
BuilderAllPerRow ==
    \E outcome \in {"queryError", "rows"}, dataSet \in DataSets :
        /\ conns[1].closed = 0
        /\ outcome = "queryError" => dataSet = <<>>
        /\ op' = "Builder.All (per row)"
        /\ drv' = [outcome |-> outcome, count |-> Len(dataSet), rows |-> dataSet]
        /\ model' = CloseClient(model, conns).model
        /\ conns' = CloseClient(model, conns).conns
        /\ IF outcome = "queryError"
           THEN /\ ret' = [NoRet EXCEPT !.err = TRUE]
                /\ schemes' = schemes
           ELSE /\ ret' = [NoRet EXCEPT !.set = [i \in 1..Len(dataSet) |-> i + 1]]
                /\ schemes' = <<schemes[1]>>
                              \o [i \in 1..Len(dataSet) |->
                                    fillScheme(ZeroInstance, dataSet[i].data).inst]
        /\ UNCHANGED <<rd, client, q, arg, sent, whereClause, mq, db>>

NextBuilder == BuilderAll \/ BuilderAllPerRow

SpecBuilder == InitBuilder /\ [][NextBuilder]_vars

\* C18: Builder.All returns one scheme per row, no two of them the same
\* instance, and the i-th holds the values of the i-th row.
C18_OneInstancePerRow ==
    (op \in {"Builder.All", "Builder.All (per row)"} /\ ~ret.err) =>
        /\ Len(ret.set) = Len(drv.rows)
        /\ \A i, j \in 1..Len(ret.set) : ret.set[i] = ret.set[j] => i = j
        /\ \A i \in 1..Len(ret.set) :
              \A c \in KeySet(drv.rows[i]) :
                  \A k \in 1..Len(SchemeFields) :
                      (SchemeFields[k].column = c /\ Eligible(SchemeFields[k])) =>
                          schemes[ret.set[i]][SchemeFields[k].name] = Get(drv.rows[i], c)

----------------------------------------------------------------------------
(* CreateTable on the two SQL clients, and the backend running the
   statement.  A table name is a sequence of atoms with "." an atom of its
   own. *)

TableNames == {<<"players">>, <<"dbo", ".", "players">>, <<"dbo", ".", "teams">>}

\* the text of a TableInfo, as atoms
Infos == {<<"id", SP, "INT">>, <<"id", SP, "INT", ",", SP, "name", SP, "TEXT">>}

\* SQLServer.generateTableExistenceCheckQuery, given the parts of the name
TableExistenceCheckQuery(schema, table) ==
    <<"SELECT", SP, "*", SP, "FROM", SP, "INFORMATION_SCHEMA.TABLES", SP, "WHERE", SP,
      "TABLE_SCHEMA", SP, "=", SP>>
    \o SQLServerEnquoteValue(StrV(schema))
    \o <<SP, "AND", SP, "TABLE_NAME", SP, "=", SP>>
    \o SQLServerEnquoteValue(StrV(table))

\* SQLServer.generateCreateQuery
generateCreateQuery(table, info) ==
    <<"CREATE", SP, "TABLE", SP>> \o table \o <<SP, "(">> \o info \o <<")">>

\* "IF NOT EXISTS (%s) BEGIN %s END"
GuardedCreate(check, create) ==
    <<"IF", SP, "NOT", SP, "EXISTS", SP, "(">> \o check
    \o <<")", SP, "BEGIN", SP>> \o create \o <<SP, "END">>

\* "CREATE TABLE IF NOT EXISTS %s ( %s )"
CreateIfNotExists(table, info) ==
    <<"CREATE", SP, "TABLE", SP, "IF", SP, "NOT", SP, "EXISTS", SP>>
    \o table \o <<SP, "(", SP>> \o info \o <<SP, ")">>

\* a statement that creates the table without looking
CreateTableUnguarded(dialect, table, info) ==
    [panic |-> dialect = "sqlserver" /\ Len(Split(table, ".")) # 2,
     statement |-> generateCreateQuery(table, info)]

\* the statement of Postgres.CreateTable and SQLServer.CreateTable
\* -> [panic, statement]
CreateTableQuery(dialect, table, info) ==
    IF dialect = "postgres"
    THEN [panic |-> FALSE, statement |-> CreateIfNotExists(table, info)]
    ELSE LET parts == Split(table, ".")
         IN  IF Len(parts) # 2
             THEN [panic |-> TRUE, statement |-> <<>>]
             ELSE [panic |-> FALSE,
                   statement |-> GuardedCreate(
                                     TableExistenceCheckQuery(parts[1][1], parts[2][1]),
                                     generateCreateQuery(table, info))]

HasTable(tables, name) == \E t \in tables : t.name = name

\* the backend running CREATE TABLE name (info): a second table of the
\* same name is an error
RunCreate(tables, name, info) ==
    IF HasTable(tables, name)
    THEN [tables |-> tables, err |-> TRUE]
    ELSE [tables |-> tables \cup {[name |-> name, info |-> info]}, err |-> FALSE]

\* the backend running a statement -> [tables, err]
ExecStatement(statement, tables) ==
    LET guarded == {p \in TableNames \X Infos : statement = CreateIfNotExists(p[1], p[2])}
        checked == {p \in {"dbo"} \X {"players", "teams"} \X TableNames \X Infos :
                       statement = GuardedCreate(TableExistenceCheckQuery(p[1], p[2]),
                                                 generateCreateQuery(p[3], p[4]))}
        plain == {p \in TableNames \X Infos : statement = generateCreateQuery(p[1], p[2])}
    IN  IF guarded # {}
        THEN LET p == CHOOSE x \in guarded : TRUE
             IN  IF HasTable(tables, p[1]) THEN [tables |-> tables, err |-> FALSE]
                 ELSE RunCreate(tables, p[1], p[2])
        ELSE IF checked # {}
        THEN LET p == CHOOSE x \in checked : TRUE
             IN  IF HasTable(tables, <<p[1], ".", p[2]>>) THEN [tables |-> tables, err |-> FALSE]
                 ELSE RunCreate(tables, p[3], p[4])
        ELSE IF plain # {}
        THEN LET p == CHOOSE x \in plain : TRUE
             IN  RunCreate(tables, p[1], p[2])
        ELSE [tables |-> tables, err |-> TRUE]

InitTable ==
    /\ rd = ZeroRecordData
    /\ client \in Dialects
    /\ q = NoQuery
    /\ op = "NewClient"
    /\ arg = NoArg
    /\ drv = NoDrv
    /\ sent = <<>>
    /\ whereClause = <<>>
    /\ ret = NoRet
    /\ mq = NoMongoQuery
    /\ db = {}
    /\ schemes = <<>>
    /\ model = NoModel
    /\ conns = <<>>

\* CreateTable(tableName, info); drv.count is the number of tables the
\* backend held before
CreateTable ==
    \E table \in TableNames, info \in Infos, outcome \in {"executed", "unreachable"} :
        LET cq == CreateTableQuery(client, table, info)
            r == ExecStatement(cq.statement, db)
        IN  /\ op' = "CreateTable"
            /\ arg' = [NoArg EXCEPT !.table = table, !.info = info]
            /\ IF cq.panic
               THEN /\ outcome = "executed"
                    /\ sent' = <<>>
                    /\ drv' = NoDrv
                    /\ db' = db
                    /\ ret' = [NoRet EXCEPT !.panic = TRUE]
               ELSE /\ sent' = <<cq.statement>>
                    /\ drv' = [outcome |-> outcome, count |-> Cardinality(db)]
                    /\ db' = IF outcome = "executed" THEN r.tables ELSE db
                    /\ ret' = [NoRet EXCEPT !.err = (outcome = "unreachable" \/ r.err)]
            /\ UNCHANGED <<rd, client, q, whereClause, mq, schemes, model, conns>>

NextTable == CreateTable

SpecTable == InitTable /\ [][NextTable]_vars

\* C20: CreateTable on a table that exists with the same structure returns
\* no error and leaves the tables of the backend as they were, on both
\* dialects.
C20_CreateTableIdempotent ==
    [][(/\ op' = "CreateTable"
        /\ drv'.outcome = "executed"
        /\ [name |-> arg'.table, info |-> arg'.info] \in db) =>
            (~ret'.err /\ ~ret'.panic /\ db' = db)]_vars

C20_Witness ==
    /\ op = "CreateTable"
    /\ client = "sqlserver"
    /\ drv.outcome = "executed"
    /\ drv.count = Cardinality(db)
    /\ [name |-> arg.table, info |-> arg.info] \in db
    /\ ~ret.err

----------------------------------------------------------------------------
(* EnsureIndex of the two SQL clients.  A column name is a sequence of
   atoms with "_" an atom of its own, so that the index name joined from
   the columns is the text the code builds.  db holds the indexes of the
   backend: [name, table, columns, unique]. *)

IndexTables == {<<"dbo", ".", "players">>, <<"dbo", ".", "teams">>}

ColumnLists == {<< <<"a">> >>, << <<"a">>, <<"b">> >>, << <<"a", "_", "b">> >>}

Indices == [columns : ColumnLists, unique : BOOLEAN]

\* strings.Join(index.Columns, "_") with its "_unique_index" or "_index" ending
IndexName(index) ==
    Join(index.columns, <<"_">>)
    \o (IF index.unique THEN <<"_", "unique", "_", "index">> ELSE <<"_", "index">>)

IndexNames == {IndexName(i) : i \in Indices}

\* "CREATE [UNIQUE ]INDEX %s ON %s (%s)"
CreateIndex(unique, name, table, columns) ==
    (IF unique THEN <<"CREATE", SP, "UNIQUE", SP, "INDEX", SP>>
               ELSE <<"CREATE", SP, "INDEX", SP>>)
    \o name \o <<SP, "ON", SP>> \o table \o <<SP, "(">> \o columns \o <<")">>

\* "CREATE [UNIQUE ]INDEX IF NOT EXISTS %s ON %s (%s)"
CreateIndexIfNotExists(unique, name, table, columns) ==
    (IF unique THEN <<"CREATE", SP, "UNIQUE", SP, "INDEX", SP>>
               ELSE <<"CREATE", SP, "INDEX", SP>>)
    \o <<"IF", SP, "NOT", SP, "EXISTS", SP>>
    \o name \o <<SP, "ON", SP>> \o table \o <<SP, "(">> \o columns \o <<")">>

\* SQLServer.enquoteValue of a string given as atoms
EnquoteText(t) == <<"N'">> \o t \o <<"'">>

\* "SELECT * FROM sys.indexes WHERE name = %s AND object_id = OBJECT_ID(%s)"
IndexExistenceCheckQuery(name, table) ==
    <<"SELECT", SP, "*", SP, "FROM", SP, "sys.indexes", SP, "WHERE", SP,
      "name", SP, "=", SP>> \o EnquoteText(name)
    \o <<SP, "AND", SP, "object_id", SP, "=", SP, "OBJECT_ID", "(">>
    \o EnquoteText(table) \o <<")">>

\* the statement of Postgres.EnsureIndex and SQLServer.EnsureIndex
EnsureIndexQuery(dialect, tableName, index) ==
    LET columns == Join(index.columns, <<",", SP>>)
        indexName == IndexName(index)
    IN  IF dialect = "postgres"
        THEN CreateIndexIfNotExists(index.unique, indexName, tableName, columns)
        ELSE GuardedCreate(IndexExistenceCheckQuery(indexName, tableName),
                           CreateIndex(index.unique, indexName, tableName, columns))

\* the backend running CREATE INDEX: index names are one name space per
\* schema on Postgres and per table on SQL Server
RunCreateIndex(dialect, indexes, name, table, columns, unique) ==
    IF \E i \in indexes : i.name = name /\ (dialect = "postgres" \/ i.table = table)
    THEN [indexes |-> indexes, err |-> TRUE]
    ELSE [indexes |-> indexes \cup {[name |-> name, table |-> table,
                                      columns |-> columns, unique |-> unique]},
          err |-> FALSE]

\* the backend running a statement of EnsureIndex -> [indexes, err]
ExecIndexStatement(dialect, statement, indexes) ==
    LET shapes == IndexNames \X IndexTables \X ColumnLists \X BOOLEAN
        guarded == {p \in shapes :
                       /\ dialect = "postgres"
                       /\ statement = CreateIndexIfNotExists(p[4], p[1], p[2],
                                                             Join(p[3], <<",", SP>>))}
        checked == {p \in shapes :
                       /\ dialect = "sqlserver"
                       /\ statement = GuardedCreate(
                                          IndexExistenceCheckQuery(p[1], p[2]),
                                          CreateIndex(p[4], p[1], p[2],
                                                      Join(p[3], <<",", SP>>)))}
    IN  IF guarded # {}
        THEN LET p == CHOOSE x \in guarded : TRUE
             IN  IF \E i \in indexes : i.name = p[1]
                 THEN [indexes |-> indexes, err |-> FALSE]
                 ELSE RunCreateIndex(dialect, indexes, p[1], p[2], p[3], p[4])
        ELSE IF checked # {}
        THEN LET p == CHOOSE x \in checked : TRUE
             IN  IF \E i \in indexes : i.name = p[1] /\ i.table = p[2]
                 THEN [indexes |-> indexes, err |-> FALSE]
                 ELSE RunCreateIndex(dialect, indexes, p[1], p[2], p[3], p[4])
        ELSE [indexes |-> indexes, err |-> TRUE]

InitIndex ==
    /\ rd = ZeroRecordData
    /\ client \in Dialects
    /\ q = NoQuery
    /\ op = "NewClient"
    /\ arg = NoArg
    /\ drv = NoDrv
    /\ sent = <<>>
    /\ whereClause = <<>>
    /\ ret = NoRet
    /\ mq = NoMongoQuery
    /\ db = {}
    /\ schemes = <<>>
    /\ model = NoModel
    /\ conns = <<>>

\* EnsureIndex(tableName, index); drv.count is the number of indexes the
\* backend held before
EnsureIndex ==
    \E table \in IndexTables, index \in Indices, outcome \in {"executed", "unreachable"} :
        LET createQuery == EnsureIndexQuery(client, table, index)
            r == ExecIndexStatement(client, createQuery, db)
        IN  /\ op' = "EnsureIndex"
            /\ arg' = [NoArg EXCEPT !.table = table, !.index = index]
            /\ sent' = <<createQuery>>
            /\ drv' = [outcome |-> outcome, count |-> Cardinality(db)]
            /\ db' = IF outcome = "executed" THEN r.indexes ELSE db
            /\ ret' = [NoRet EXCEPT !.err = (outcome = "unreachable" \/ r.err)]
            /\ UNCHANGED <<rd, client, q, whereClause, mq, schemes, model, conns>>

NextIndex == EnsureIndex

SpecIndex == InitIndex /\ [][NextIndex]_vars

\* the index that EnsureIndex was asked for is on the table
Ensured(indexes, table, index) ==
    \E i \in indexes : /\ i.table = table
                       /\ i.columns = index.columns
                       /\ i.unique = index.unique

\* C21: when EnsureIndex(tableName, index) has returned nil, an index over
\* index.Columns, unique exactly when index.Unique, is on tableName,
\* whatever EnsureIndex calls came before.
C21_IndexEnsured ==
    (op = "EnsureIndex" /\ ~ret.err) => Ensured(db, arg.table, arg.index)

----------------------------------------------------------------------------
(* Derivation of the table structure from the scheme type
   (Model.getTableStruct).  A type is [kind, elem]; a field declaration
   carries its sql tag as the list of its ";" parts, each part <<key>> or
   <<key, value>>.  schemes[1] is the list of the field declarations. *)

Type(kind) == [kind |-> kind, elem |-> "none"]

SliceOf(elem) == [kind |-> "slice", elem |-> elem]

\* nautilus.FieldData of a field; column is ToSnake(name)
FieldData(name, column, type, tag) ==
    [name |-> name, column |-> column, type |-> type, tag |-> tag,
     anonymous |-> FALSE, exported |-> TRUE]

Embedded == [FieldData("scheme", "scheme", Type("struct"), <<>>) EXCEPT !.anonymous = TRUE]

\* Model.parseTag from the i-th part on: a part with ":" sets its key to
\* its value, any other part (the empty tag too) sets itself to "true"
RECURSIVE ParseParts(_, _)
ParseParts(parts, tag) ==
    IF parts = <<>> THEN tag
    ELSE LET part == parts[1]
         IN  ParseParts(Tail(parts),
                        IF Len(part) = 2 THEN MapPut(tag, part[1], part[2])
                        ELSE MapPut(tag, part[1], "true"))

parseTag(tagValue) ==
    ParseParts(IF tagValue = <<>> THEN << <<"">> >> ELSE tagValue, [k \in {} |-> ""])

\* Model.getPostgresMatchingType -> [panic, type]
getPostgresMatchingType(t, tags) ==
    LET ai == "ai" \in DOMAIN tags /\ tags["ai"] = "true"
        scalar(kind) ==
            CASE kind = "bool" -> <<"BOOLEAN">>
              [] kind \in {"int8", "int16", "uint8"} ->
                    IF ai THEN <<"SMALLSERIAL">> ELSE <<"SMALLINT">>
              [] kind \in {"int32", "int", "uint16"} ->
                    IF ai THEN <<"SERIAL">> ELSE <<"INT">>
              [] kind \in {"int64", "uint32", "uint"} ->
                    IF ai THEN <<"BIGSERIAL">> ELSE <<"BIGINT">>
              [] kind = "float32" -> <<"REAL">>
              [] kind = "float64" -> <<"FLOAT8">>
              [] kind = "uint64" -> <<"DECIMAL">>
              [] kind \in {"map", "struct"} -> <<"JSON">>
              [] kind = "string" -> <<"TEXT">>
              [] OTHER -> <<>>
    IN  IF t.kind = "slice"
        THEN [panic |-> scalar(t.elem) = <<>>, type |-> scalar(t.elem) \o <<"[]">>]
        ELSE [panic |-> scalar(t.kind) = <<>>, type |-> scalar(t.kind)]

\* a getMSSQLMatchingType that falls back to a text column for a kind it
\* does not know
getMSSQLMatchingTypeLenient(t) ==
    [panic |-> FALSE, type |-> <<"NVARCHAR(MAX)">>]

\* Model.getMSSQLMatchingType -> [panic, type]
getMSSQLMatchingType(t) ==
    LET type == CASE t.kind = "bool" -> <<"BIT">>
                  [] t.kind = "uint8" -> <<"TINYINT">>
                  [] t.kind \in {"int8", "int16"} -> <<"SMALLINT">>
                  [] t.kind \in {"int32", "int", "uint16"} -> <<"INT">>
                  [] t.kind \in {"int64", "uint32", "uint"} -> <<"BIGINT">>
                  [] t.kind = "float32" -> <<"REAL">>
                  [] t.kind = "float64" -> <<"FLOAT">>
                  [] t.kind = "uint64" -> <<"DECIMAL">>
                  [] t.kind = "string" -> <<"NVARCHAR(MAX)">>
                  [] OTHER -> <<>>
    IN  [panic |-> type = <<>>, type |-> type]

\* Model.getMatchingType -> [panic, type]
getMatchingType(driver, t, tags) ==
    IF "type" \in DOMAIN tags THEN [panic |-> FALSE, type |-> <<tags["type"]>>]
    ELSE CASE driver = "postgres" -> getPostgresMatchingType(t, tags)
           [] driver = "mssql" -> getMSSQLMatchingType(t)
           [] OTHER -> [panic |-> TRUE, type |-> <<>>]

\* Model.getPostgresFieldOptions
getPostgresFieldOptions(tags) ==
    LET has(k) == k \in DOMAIN tags
    IN  TrimRight(
            (IF has("pk") THEN <<"PRIMARY KEY", SP>>
             ELSE IF has("notnull") THEN <<"NOT NULL", SP>>
             ELSE IF has("null") THEN <<"NULL", SP>> ELSE <<>>)
            \o (IF has("check") THEN <<"CHECK", SP, "(", tags["check"], ")", SP>> ELSE <<>>)
            \o (IF has("default") THEN <<"DEFAULT", SP, tags["default"], SP>> ELSE <<>>)
            \o (IF has("unique") THEN <<"UNIQUE">> ELSE <<>>))

\* Model.getMSSQLFieldOptions
getMSSQLFieldOptions(tags) ==
    LET has(k) == k \in DOMAIN tags
        cluster == IF has("cluster") THEN <<"CLUSTERED", SP>>
                   ELSE IF has("noncluster") THEN <<"NONCLUSTERED", SP>> ELSE <<>>
    IN  TrimRight(
            (IF has("id")
             THEN IF tags["id"] = "true" THEN <<"IDENTITY", SP>>
                  ELSE <<"IDENTITY", tags["id"], SP>>
             ELSE <<>>)
            \o (IF has("pk") THEN <<"PRIMARY KEY", SP>> \o cluster
                ELSE IF has("null") THEN <<"NULL", SP>>
                ELSE IF has("notnull") THEN <<"NOT NULL", SP>> ELSE <<>>)
            \o (IF has("default") THEN <<"DEFAULT", SP, tags["default"], SP>> ELSE <<>>)
            \o (IF has("unique") THEN <<"UNIQUE", SP>> \o cluster ELSE <<>>)
            \o (IF has("check") THEN <<"CHECK", SP, tags["check"], SP>> ELSE <<>>))

\* Model.getFieldOptions -> [panic, options]
getFieldOptions(driver, tags) ==
    CASE driver = "postgres" -> [panic |-> FALSE, options |-> getPostgresFieldOptions(tags)]
      [] driver = "mssql" -> [panic |-> FALSE, options |-> getMSSQLFieldOptions(tags)]
      [] OTHER -> [panic |-> TRUE, options |-> <<>>]

\* the fields getTableStruct takes
InStructure(fieldData) ==
    /\ "ignore" \notin DOMAIN parseTag(fieldData.tag)
    /\ ~fieldData.anonymous
    /\ fieldData.exported

\* the column name of a field: the column tag, or else ToSnake of the name
FieldName(fieldData) ==
    LET tagData == parseTag(fieldData.tag)
    IN  IF "column" \in DOMAIN tagData THEN tagData["column"] ELSE fieldData.column

\* the loop of Model.getTableStruct over the fields -> [panic, structure]
RECURSIVE TableStructFrom(_, _, _)
TableStructFrom(driver, fieldsData, structure) ==
    IF fieldsData = <<>> THEN [panic |-> FALSE, structure |-> structure]
    ELSE LET fieldData == fieldsData[1]
             parsed == parseTag(fieldData.tag)
             fieldName == FieldName(fieldData)
             tagData == IF fieldName = GetKeyName
                        THEN MapPut(MapPut(MapPut(parsed, "ai", "true"), "id", "true"),
                                    "pk", "true")
                        ELSE parsed
             type == getMatchingType(driver, fieldData.type, tagData)
             options == getFieldOptions(driver, tagData)
         IN  IF ~InStructure(fieldData)
             THEN TableStructFrom(driver, Tail(fieldsData), structure)
             ELSE IF type.panic \/ options.panic
             THEN [panic |-> TRUE, structure |-> <<>>]
             ELSE TableStructFrom(driver, Tail(fieldsData),
                      Append(structure, [Name |-> fieldName, Type |-> type.type,
                                         Options |-> options.options]))

\* Model.getTableStruct
getTableStruct(driver, fieldsData) == TableStructFrom(driver, fieldsData, <<>>)

\* FieldStructure.String: TrimRight("%s %s %s", " ")
FieldString(s) == TrimRight(<<s.Name, SP>> \o s.Type \o <<SP>> \o s.Options)

\* TableStructure.GetInfo
GetInfo(structure) ==
    Join([i \in 1..Len(structure) |-> FieldString(structure[i])], <<",", SP>>)

\* the sql tags the primary-key field is declared with
KeyTags ==
    { <<>>, << <<"null">> >>, << <<"notnull">> >>, << <<"id", "(2,5)">> >>,
      << <<"type", "INT">> >>, << <<"type", "INT">>, <<"null">> >> }

KeyTypes == {Type("int"), Type("int64")}

\* the types and tags of the second field
OtherTypes == {Type("string"), Type("chan"), Type("map"), SliceOf("int"), SliceOf("chan")}

OtherTags == {<<>>, << <<"type", "varchar(50)">> >>, << <<"ignore">> >>}

SchemeTypes ==
    { <<Embedded, FieldData("ID", "id", kt, ktag), FieldData("Extra", "extra", ot, otag)>> :
        kt \in KeyTypes, ktag \in KeyTags, ot \in OtherTypes, otag \in OtherTags }

\* the name of the dialect of a driver
DialectOf(driver) == IF driver = "mssql" THEN "sqlserver" ELSE "postgres"

\* Model.guessTableName: SQL Server names carry the schema
GuessedTableName(driver) ==
    IF driver = "mssql" THEN <<"dbo", ".", "players">> ELSE <<"players">>

InitStruct ==
    /\ rd = ZeroRecordData
    /\ client = "none"
    /\ q = NoQuery
    /\ op = "Initiate"
    /\ arg = NoArg
    /\ drv = NoDrv
    /\ sent = <<>>
    /\ whereClause = <<>>
    /\ ret = NoRet
    /\ mq = NoMongoQuery
    /\ db = {}
    /\ \E fieldsData \in SchemeTypes : schemes = <<fieldsData>>
    /\ \E driver \in Drivers :
           model = [driver |-> driver, client |-> 0, tableName |-> GuessedTableName(driver)]
    /\ conns = <<>>

\* m.getTableStruct(); ret.set is the structure
GetTableStruct ==
    LET r == getTableStruct(model.driver, schemes[1])
    IN  /\ op' = "getTableStruct"
        /\ arg' = NoArg
        /\ sent' = <<>>
        /\ drv' = NoDrv
        /\ ret' = [NoRet EXCEPT !.set = r.structure, !.panic = r.panic]
        /\ UNCHANGED <<rd, client, q, whereClause, mq, db, schemes, model, conns>>

NextStruct == GetTableStruct

SpecStruct == InitStruct /\ [][NextStruct]_vars

\* what the column definition of a field means to the backend
AutoIncrement(driver, s) ==
    IF driver = "postgres"
    THEN s.Type \in {<<"SMALLSERIAL">>, <<"SERIAL">>, <<"BIGSERIAL">>}
    ELSE \E i \in 1..Len(s.Options) : s.Options[i] = "IDENTITY"

PrimaryKey(s) == \E i \in 1..Len(s.Options) : s.Options[i] = "PRIMARY KEY"

NotNull(s) ==
    /\ \A i \in 1..Len(s.Options) : s.Options[i] # "NULL"
    /\ PrimaryKey(s) \/ \E i \in 1..Len(s.Options) : s.Options[i] = "NOT NULL"

\* C22: in the structure getTableStruct derives, the field whose column is
\* the key name is auto-increment, primary key and not null, whatever tags
\* it declares, on both SQL dialects.
C22_KeyFieldForced ==
    (op = "getTableStruct" /\ ~ret.panic) =>
        \A i \in 1..Len(ret.set) :
            ret.set[i].Name = GetKeyName =>
                /\ AutoIncrement(model.driver, ret.set[i])
                /\ PrimaryKey(ret.set[i])
                /\ NotNull(ret.set[i])

----------------------------------------------------------------------------
(* Model.EnsureIndex down to the statements it hands to the client *)

\* the scheme types of the models: a plain key and a second field
FatalSchemeTypes ==
    { <<Embedded, FieldData("ID", "id", Type("int"), <<>>),
        FieldData("Extra", "extra", ot, otag)>> :
        ot \in OtherTypes, otag \in OtherTags }

\* the indexes asked for
EnsuredIndices == {i \in Indices : i.columns = << <<"a">> >>}

\* Initiate with a guessed table name, or one a configurator has set
InitFatal ==
    /\ rd = ZeroRecordData
    /\ client = "none"
    /\ q = NoQuery
    /\ op = "Initiate"
    /\ arg = NoArg
    /\ drv = NoDrv
    /\ sent = <<>>
    /\ whereClause = <<>>
    /\ ret = NoRet
    /\ mq = NoMongoQuery
    /\ db = {}
    /\ \E fieldsData \in FatalSchemeTypes : schemes = <<fieldsData>>
    /\ \E driver \in Drivers, tableName \in {<<"players">>, <<"dbo", ".", "players">>} :
           model = [driver |-> driver, client |-> 0, tableName |-> tableName]
    /\ conns = <<>>

\* Model.EnsureIndex(indices...) with no index or one: the table is created
\* for the SQL drivers, then each index; an error of the client is a panic.
\* drv.count is the number of calls that reached the driver.
ModelEnsureIndexes ==
    \E dial \in {"ok", "error"}, indices \in {<<>>} \cup {<<i>> : i \in EnsuredIndices},
      created \in BOOLEAN, indexed \in BOOLEAN :
        LET p == PrepareClient(model, conns, dial)
            c == CloseClient(p.model, p.conns)
            sql == model.driver # "mongo"
            ts == getTableStruct(model.driver, schemes[1])
            cq == CreateTableQuery(DialectOf(model.driver), model.tableName,
                                   GetInfo(ts.structure))
            fatal == sql /\ (ts.panic \/ cq.panic)
            tableSent == IF sql /\ ~fatal THEN <<cq.statement>> ELSE <<>>
            tableOk == ~fatal /\ (sql => created)
            indexSent == IF tableOk /\ sql
                         THEN [i \in 1..Len(indices) |->
                                  EnsureIndexQuery(DialectOf(model.driver),
                                                   model.tableName, indices[i])]
                         ELSE <<>>
            calls == Len(tableSent) + (IF tableOk THEN Len(indices) ELSE 0)
        IN  /\ Len(p.conns) <= MaxClients
            /\ (p.panic \/ fatal \/ ~sql) => created
            /\ (p.panic \/ ~tableOk \/ indices = <<>>) => indexed
            /\ op' = "Model.EnsureIndex"
            /\ arg' = NoArg
            /\ model' = IF p.panic THEN p.model ELSE c.model
            /\ conns' = IF p.panic THEN p.conns ELSE c.conns
            /\ sent' = IF p.panic THEN <<>> ELSE tableSent \o indexSent
            /\ drv' = IF p.panic \/ calls = 0 THEN NoDrv
                      ELSE [outcome |-> IF created /\ indexed THEN "executed" ELSE "execError",
                            count |-> calls]
            /\ ret' = [NoRet EXCEPT !.panic = p.panic \/ fatal \/ ~created \/ ~indexed]
            /\ UNCHANGED <<rd, client, q, whereClause, mq, db, schemes>>

NextFatal == ModelEnsureIndexes

SpecFatal == InitFatal /\ [][NextFatal]_vars

\* the kinds a dialect has a native type for
NativeKinds(driver) ==
    {"bool", "int8", "int16", "int32", "int", "int64", "uint8", "uint16", "uint32",
     "uint", "uint64", "float32", "float64", "string"}
    \cup (IF driver = "postgres" THEN {"map", "struct"} ELSE {})

\* a field of the table whose type is inferred from a kind that has no
\* native type in the dialect
Unmappable(driver, fieldsData) ==
    \E i \in 1..Len(fieldsData) :
        LET f == fieldsData[i]
            tags == {f.tag[j][1] : j \in 1..Len(f.tag)}
        IN  /\ ~f.anonymous /\ f.exported /\ "ignore" \notin tags /\ "type" \notin tags
            /\ IF f.type.kind = "slice"
               THEN driver # "postgres" \/ f.type.elem \notin NativeKinds(driver) \ {"map", "struct"}
               ELSE f.type.kind \notin NativeKinds(driver)

\* C24: Model.EnsureIndex on a SQL driver, with a table name that SQL Server
\* cannot split on "." into two parts or with a field of a kind that has no
\* native type in the dialect, panics and hands no statement to the driver.
C24_FatalBeforeDriver ==
    [][(/\ op' = "Model.EnsureIndex"
        /\ model.driver \in {"postgres", "mssql"}
        /\ \/ Unmappable(model.driver, schemes[1])
           \/ model.driver = "mssql" /\ Len(Split(model.tableName, ".")) # 2) =>
            (ret'.panic /\ sent' = <<>> /\ drv' = NoDrv /\ db' = db)]_vars

C24_Witness ==
    /\ op = "Model.EnsureIndex"
    /\ model.driver = "mssql"
    /\ model.tableName = <<"players">>
    /\ ~Unmappable(model.driver, schemes[1])
    /\ Len(conns) = 1 /\ conns[1].closed = 1
    /\ ret.panic /\ sent = <<>>

----------------------------------------------------------------------------
(* Insert of the three clients, and the updates of the SQL clients, on a
   record container the caller holds (rd) *)

InsertClients == {"postgres", "sqlserver", "mongo"}

\* base.NewRecordData(keys, data)
NewRecordData(keys, data) ==
    [data |-> data, keys |-> keys, dataNil |-> FALSE, keysNil |-> FALSE]

\* RecordData.GetValues(enquoter)
GetValues(d, dialect) ==
    [i \in 1..Len(d.keys) |-> Enquote(dialect, MapGet(d.data, d.keys[i]))]

\* enquoteValue of one of the record's columns faults: reflect.TypeOf(nil)
\* is nil and has no Kind
ValuesPanic(d) == \E i \in 1..Len(d.keys) : MapGet(d.data, d.keys[i]).kind = "nil"

\* the statement text of Postgres.Insert and SQLServer.Insert, given the
\* columns and the values
InsertStatement(dialect, table, columns, values) ==
    LET cols == Join([i \in 1..Len(columns) |-> <<columns[i]>>], <<",", SP>>)
        vals == Join(values, <<",", SP>>)
    IN  IF dialect = "postgres"
        THEN <<"INSERT", SP, "INTO", SP, table, SP, "(">> \o cols
             \o <<")", SP, "VALUES", SP, "(">> \o vals \o <<")", SP, "RETURNING", SP, "*">>
        ELSE <<"INSERT", SP, "INTO", SP, table, SP, "(">> \o cols
             \o <<")", SP, "OUTPUT", SP, "inserted.*", SP, "VALUES", SP, "(">> \o vals \o <<")">>

InsertQuery(dialect, table, d) ==
    InsertStatement(dialect, table, GetColumns(d), GetValues(d, dialect))

\* bson.NewObjectId()
NewObjectId == OidV("5f")

\* MongoDB.Insert -> [d, err, panic, sent]: the identifier is set, then the
\* map is handed to the collection
MongoDBInsert(d, outcome) ==
    [d |-> Set(d, "_id", NewObjectId), err |-> outcome # "row", panic |-> FALSE,
     sent |-> <<>>]

\* Postgres.Insert and SQLServer.Insert -> [d, err, panic, sent]
SQLInsert(dialect, table, d, outcome, scanned) ==
    IF ValuesPanic(d) THEN [d |-> d, err |-> FALSE, panic |-> TRUE, sent |-> <<>>]
    ELSE IF outcome = "queryError"
    THEN [d |-> d, err |-> TRUE, panic |-> FALSE, sent |-> <<InsertQuery(dialect, table, d)>>]
    ELSE LET r == fetchSingleRecord(DriverRow, outcome, scanned, d)
         IN  [d |-> r.d, err |-> r.err, panic |-> FALSE,
              sent |-> <<InsertQuery(dialect, table, d)>>]

\* client.Insert(tableName, data)
ClientInsert(clientName, table, d, outcome, scanned) ==
    IF clientName = "mongo" THEN MongoDBInsert(d, outcome)
    ELSE SQLInsert(clientName, table, d, outcome, scanned)

\* the records a caller hands in: built with Set, and with NewRecordData
\* from keys and a map that need not agree
InsertDatas ==
    { ZeroRecordData,
      Set(Set(ZeroRecordData, "name", StrV("Test")), "rate", IntV(5)),
      Set(Set(ZeroRecordData, "rate", IntV(5)), "name", StrV("Test")),
      NewRecordData(<<"name", "rate">>, [k \in {"name"} |-> StrV("Test")]),
      NewRecordData(<<"name">>, [k \in {"name", "rate"} |->
                                    IF k = "name" THEN StrV("Test") ELSE IntV(5)]) }

InitInsert ==
    /\ \E d \in InsertDatas : rd = d
    /\ client \in InsertClients
    /\ q = newSQLQuery(TableName, <<Cond("id", "=", IntV(1))>>,
                       IF client = "mongo" THEN "postgres" ELSE client)
    /\ op = "NewClient"
    /\ arg = NoArg
    /\ drv = NoDrv
    /\ sent = <<>>
    /\ whereClause = <<>>
    /\ ret = NoRet
    /\ NoMapping

\* client.Insert(table, &rd); arg.data is the record as it was handed in
InsertRecord ==
    \E outcome \in QueryOutcomes, scanned \in 0..(Len(DriverRow) - 1) :
        LET r == ClientInsert(client, TableName, rd, outcome, scanned)
        IN  /\ outcome # "scanError" => scanned = 0
            /\ client = "mongo" => outcome \in {"row", "queryError"}
            /\ r.panic => outcome = "row"
            /\ op' = "Insert"
            /\ arg' = [NoArg EXCEPT !.data = rd]
            /\ rd' = r.d
            /\ sent' = r.sent
            /\ drv' = [outcome |-> IF r.panic THEN "none" ELSE outcome, count |-> scanned]
            /\ ret' = [NoRet EXCEPT !.err = r.err, !.panic = r.panic]
            /\ UNCHANGED <<client, q, whereClause, mq, db, schemes, model, conns>>

\* Postgres.UpdateByID / SQLServer.UpdateByID (table, id, rd)
UpdateByIDRecord ==
    \E id \in IDs, outcome \in ExecOutcomes :
        /\ client \in Dialects
        /\ ValuesPanic(rd) => outcome = "ok"
        /\ op' = "UpdateByID"
        /\ arg' = [NoArg EXCEPT !.id = id, !.data = rd]
        /\ sent' = IF ValuesPanic(rd) THEN <<>>
                   ELSE <<UpdateByIDQuery(client, TableName, id, rd)>>
        /\ drv' = [outcome |-> IF ValuesPanic(rd) THEN "none" ELSE outcome, count |-> 0]
        /\ ret' = [NoRet EXCEPT !.err = (outcome # "ok"), !.panic = ValuesPanic(rd)]
        /\ UNCHANGED <<rd, client, q, whereClause, mq, db, schemes, model, conns>>

\* sqlQuery.Update(rd) on a builder with one condition
UpdateRecord ==
    \E outcome \in ExecOutcomes, count \in RowCounts :
        /\ client \in Dialects
        /\ outcome = "errorNilResult" => count = 0
        /\ op' = "Update"
        /\ arg' = [NoArg EXCEPT !.data = rd]
        /\ IF UpdatePanics(rd) \/ ValuesPanic(rd)
           THEN /\ outcome = "ok" /\ count = 0
                /\ whereClause' = <<>>
                /\ sent' = <<>>
                /\ drv' = NoDrv
                /\ ret' = [NoRet EXCEPT !.panic = TRUE]
           ELSE /\ whereClause' = parseWhere(q)
                /\ sent' = <<UpdateQuery(q, rd)>>
                /\ drv' = [outcome |-> outcome, count |-> count]
                /\ ret' = ExecReturn(outcome, count)
        /\ UNCHANGED <<rd, client, q, mq, db, schemes, model, conns>>

NextInsert == InsertRecord \/ UpdateByIDRecord \/ UpdateRecord

SpecInsert == InitInsert /\ [][NextInsert]_vars

\* the SET list of an update, given the columns and the values
SetList(columns, values) ==
    Join([i \in 1..Len(columns) |-> <<columns[i], SP, "=", SP>> \o values[i]], <<",", SP>>)

\* the values stored under the record's columns, each as the dialect quotes it
StoredValues(d, dialect) ==
    [i \in 1..Len(d.keys) |-> Enquote(dialect, d.data[d.keys[i]])]

\* C25: the INSERT statement and the SET list of an update render, for the
\* record handed in, its columns in key order and under each column the
\* quoted value stored under it: as many values as columns.  (Update
\* refuses a record of no values before it renders anything.)
C25_ColumnsAlignValues ==
    (/\ op \in {"Insert", "UpdateByID", "Update"}
     /\ client \in Dialects
     /\ ~(op = "Update" /\ UpdatePanics(arg.data))) =>
        /\ \A i \in 1..Len(arg.data.keys) : arg.data.keys[i] \in DOMAIN arg.data.data
        /\ Len(sent) = 1
        /\ op = "Insert" =>
               sent[1] = InsertStatement(client, TableName, arg.data.keys,
                                         StoredValues(arg.data, client))
        /\ op = "UpdateByID" =>
               \E id \in IDs :
                   sent[1] = <<"UPDATE", SP, TableName, SP, "SET", SP>>
                             \o SetList(arg.data.keys, StoredValues(arg.data, client))
                             \o <<SP, "WHERE", SP, IDColumn(client), SP, "=", SP>> \o FmtV(id)
        /\ op = "Update" =>
               sent[1] = <<"UPDATE", SP, TableName, SP, "SET", SP>>
                         \o SetList(arg.data.keys, StoredValues(arg.data, client))
                         \o <<SP, "WHERE", SP>> \o parseWhere(q)

\* C30: when Insert returns an error, the caller's record is as it was
\* before the call: the same columns in the same order and the same values.
C30_FailedInsertKeepsRecord ==
    [][(op' = "Insert" /\ ret'.err) => rd' = rd]_vars

----------------------------------------------------------------------------
(* Model.Create: the record is generated from the scheme, handed to the
   client's Insert, and the scheme is filled from it.  schemes[1] is the
   scheme the caller passes; a document model has an ObjectId identifier,
   a SQL model an integer one. *)

\* the integer fields are int64, the type setFieldValue asserts
UserFields ==
    << Field("scheme", "scheme", "struct", {"anonymous"}),
       Field("ID", "id", "oid", {}),
       Field("Name", "name", "string", {}),
       Field("Age", "age", "int", {}) >>

ProfileFields ==
    << Field("scheme", "scheme", "struct", {"anonymous"}),
       Field("ID", "id", "int", {}),
       Field("Name", "name", "string", {}),
       Field("Age", "age", "int", {}) >>

FieldsOf(driver) == IF driver = "mongo" THEN UserFields ELSE ProfileFields

CreatedInstances(driver) ==
    { [f \in {"scheme", "ID", "Name", "Age"} |->
          CASE f = "scheme" -> StructV
            [] f = "ID" -> id
            [] f = "Name" -> name
            [] OTHER -> IntV(18)] :
        id \in (IF driver = "mongo" THEN {OidV(""), OidV("aa")} ELSE {IntV(0), IntV(7)}),
        name \in {StrV(""), StrV("Test")} }

\* the loop of Model.generateRecordData over the fields
RECURSIVE RecordOf(_, _, _, _)
RecordOf(fields, inst, data, insert) ==
    IF fields = <<>> THEN data
    ELSE LET f == fields[1]
             v == inst[f.name]
         IN  RecordOf(Tail(fields), inst,
                      IF Eligible(f) /\ ~ModelSkipsField(insert, v, f.column)
                      THEN Set(data, f.column, v) ELSE data,
                      insert)

\* the loop of Model.fillScheme over the fields -> [inst, panic]
RECURSIVE FillOf(_, _, _)
FillOf(fields, inst, data) ==
    IF fields = <<>> THEN [inst |-> inst, panic |-> FALSE]
    ELSE LET f == fields[1]
         IN  IF Eligible(f)
             THEN LET r == setFieldValue(inst, f, MapGet(data, f.column))
                  IN  IF r.panic THEN r ELSE FillOf(Tail(fields), r.inst, data)
             ELSE FillOf(Tail(fields), inst, data)

\* the name of the client of a driver
ClientOf(driver) == IF driver = "mongo" THEN "mongo" ELSE DialectOf(driver)

\* the identifier the backend gives the new record
GeneratedID(driver) == IF driver = "mongo" THEN NewObjectId ELSE DriverRow[1].val

InitCreate ==
    /\ rd = ZeroRecordData
    /\ client = "none"
    /\ q = NoQuery
    /\ op = "Initiate"
    /\ arg = NoArg
    /\ drv = NoDrv
    /\ sent = <<>>
    /\ whereClause = <<>>
    /\ ret = NoRet
    /\ mq = NoMongoQuery
    /\ db = {}
    /\ \E driver \in Drivers :
           /\ model = [driver |-> driver, client |-> 0]
           /\ \E inst \in CreatedInstances(driver) : schemes = <<inst>>
    /\ conns = <<>>

\* Model.Create(&schemes[1]); rd is the record handed to the client
CreateScheme ==
    \E dial \in {"ok", "error"}, outcome \in QueryOutcomes, scanned \in 0..(Len(DriverRow) - 1) :
        LET p == PrepareClient(model, conns, dial)
            c == CloseClient(p.model, p.conns)
            recordData == RecordOf(FieldsOf(model.driver), schemes[1], ZeroRecordData, TRUE)
            r == ClientInsert(ClientOf(model.driver), TableName, recordData, outcome, scanned)
            f == FillOf(FieldsOf(model.driver), schemes[1], r.d.data)
            filled == ~p.panic /\ ~r.panic /\ ~r.err
        IN  /\ Len(p.conns) <= MaxClients
            /\ outcome # "scanError" => scanned = 0
            /\ model.driver = "mongo" => outcome \in {"row", "queryError"}
            /\ (p.panic \/ r.panic) => outcome = "row"
            /\ op' = "Model.Create"
            /\ arg' = NoArg
            /\ model' = IF p.panic THEN p.model ELSE c.model
            /\ conns' = IF p.panic THEN p.conns ELSE c.conns
            /\ rd' = IF p.panic THEN rd ELSE r.d
            /\ sent' = IF p.panic THEN <<>> ELSE r.sent
            /\ drv' = IF p.panic \/ r.panic THEN NoDrv
                      ELSE [outcome |-> outcome, count |-> scanned]
            /\ schemes' = IF filled THEN <<f.inst>> ELSE schemes
            /\ ret' = [NoRet EXCEPT !.err = (~p.panic /\ ~r.panic /\ r.err),
                                    !.panic = (p.panic \/ r.panic \/ (filled /\ f.panic))]
            /\ UNCHANGED <<client, q, whereClause, mq, db>>

NextCreate == CreateScheme

SpecCreate == InitCreate /\ [][NextCreate]_vars

\* C23: when Model.Create has returned nil, the identifier field of the
\* scheme holds the identifier the backend generated, on every backend.
C23_CreateFillsGeneratedID ==
    (op = "Model.Create" /\ ~ret.err /\ ~ret.panic) =>
        schemes[1]["ID"] = GeneratedID(model.driver)

----------------------------------------------------------------------------
(* Arrays of JSON objects read back from the backend.  An object is the
   sequence of its key/value pairs; schemes[1] is the slice stored,
   schemes[2] the slice decoded. *)

Pair(key, val) == [key |-> key, val |-> val]

JSONPairs == {Pair(k, v) : k \in {"a", "c"}, v \in {"b", "d"}}

\* objects of one key and of two
JSONObjects ==
    {<<p>> : p \in JSONPairs}
    \cup {<<p1, p2>> : p1 \in {p \in JSONPairs : p.key = "a"},
                      p2 \in {p \in JSONPairs : p.key = "c"}}

ObjectSlices == UNION {[1..n -> JSONObjects] : n \in 1..MaxSlice}

\* json.Marshal of an object
MarshalObject(o) ==
    <<"{">>
    \o Join([i \in 1..Len(o) |-> <<DQ, o[i].key, DQ, ":", DQ, o[i].val, DQ>>], <<",">>)
    \o <<"}">>

\* the array literal the backend returns for a stored json[]
ObjectArrayOutput(objects) ==
    <<"{">>
    \o Join([i \in 1..Len(objects) |-> <<DQ>> \o Escape(MarshalObject(objects[i])) \o <<DQ>>],
            <<",">>)
    \o <<"}">>

\* json.Unmarshal(text, &jsonMap) -> [ok, elem]
UnmarshalObject(text) ==
    IF \E o \in JSONObjects : MarshalObject(o) = text
    THEN [ok |-> TRUE, elem |-> CHOOSE o \in JSONObjects : MarshalObject(o) = text]
    ELSE [ok |-> FALSE, elem |-> <<>>]

\* makeSliceValue, reflect.Map case -> [ok, elem]; not ok is a panic
makeMapValue(value) ==
    LET stripped == SelectSeq(value, LAMBDA c : c # BS)
    IN  IF Len(stripped) < 2 THEN [ok |-> FALSE, elem |-> <<>>]
        ELSE UnmarshalObject(SubSeq(stripped, 2, Len(stripped) - 1))

\* the pieces setFieldValue cuts the array literal into
SplitArray(value) ==
    LET t == SubSeq(value, 2, Len(value) - 1)
    IN  IF HasSub(t, <<DQ, ",", DQ>>)
        THEN Split(ReplaceAll(t, <<DQ, ",", DQ>>, <<DQ, "|", DQ>>), "|")
        ELSE Split(t, ",")

\* setFieldValue, reflect.Slice case, for a slice of maps -> [items, panic]
setMapSliceValue(value) ==
    LET values == SplitArray(value)
        made == [i \in 1..Len(values) |-> makeMapValue(values[i])]
    IN  IF \A i \in 1..Len(made) : made[i].ok
        THEN [items |-> [i \in 1..Len(made) |-> made[i].elem], panic |-> FALSE]
        ELSE [items |-> <<>>, panic |-> TRUE]

InitJSON ==
    /\ rd = ZeroRecordData
    /\ client = "postgres"
    /\ q = NoQuery
    /\ op = "new"
    /\ arg = NoArg
    /\ drv = NoDrv
    /\ sent = <<>>
    /\ whereClause = <<>>
    /\ ret = NoRet
    /\ mq = NoMongoQuery
    /\ db = {}
    /\ \E objects \in ObjectSlices : schemes = <<objects>>
    /\ model = NoModel
    /\ conns = <<>>

\* the array literal of the stored slice read into the slice field of a
\* new scheme; sent holds the literal
SetMapSliceField ==
    LET value == ObjectArrayOutput(schemes[1])
        r == setMapSliceValue(value)
    IN  /\ op' = "setFieldValue"
        /\ arg' = NoArg
        /\ sent' = <<value>>
        /\ drv' = [outcome |-> "row", count |-> 0]
        /\ ret' = [NoRet EXCEPT !.panic = r.panic]
        /\ schemes' = IF r.panic THEN <<schemes[1]>> ELSE <<schemes[1], r.items>>
        /\ UNCHANGED <<rd, client, q, whereClause, mq, db, model, conns>>

NextJSON == SetMapSliceField

SpecJSON == InitJSON /\ [][NextJSON]_vars

\* C26: the array literal of n >= 1 JSON objects, of any number of keys,
\* decodes to n elements, the i-th parsed from the i-th object.
C26_ObjectsNeverSplit ==
    op = "setFieldValue" =>
        /\ ~ret.panic
        /\ Len(schemes) = 2
        /\ Len(schemes[2]) = Len(schemes[1])
        /\ \A i \in 1..Len(schemes[1]) : schemes[2][i] = schemes[1][i]

----------------------------------------------------------------------------
(* The builders and the connection they run on.  q is the builder in hand:
   the sqlQuery, the number of the connection its session is, and whether
   it is wrapped in a Builder that closes the client after each terminal
   operation.  drv.count is the connection a statement went through. *)

TerminalOps == {"Count", "First", "All", "Update", "Delete"}

BuilderOps ==
    {"Builder.Count", "Builder.First", "Builder.All", "Builder.Update",
     "Builder.Delete"}

\* no builder yet
NoBuilder == NoQuery @@ [session |-> 0, wrapped |-> FALSE]

\* client.Query(tableName, conditions...): the sqlQuery keeps the session
ClientQuery(session, wrapped) ==
    newSQLQuery(TableName, <<Cond("id", "=", IntV(1))>>, "postgres")
    @@ [session |-> session, wrapped |-> wrapped]

\* Postgres.Close / SQLServer.Close / MongoDB.Close -> [conns, panic]: the
\* session is nil after the first Close
ClientClose(cs, n) ==
    IF cs[n].closed > 0 THEN [conns |-> cs, panic |-> TRUE]
    ELSE [conns |-> [cs EXCEPT ![n].closed = 1], panic |-> FALSE]

InitConn ==
    /\ rd = ZeroRecordData
    /\ client = "none"
    /\ q = NoBuilder
    /\ op = "Initiate"
    /\ arg = NoArg
    /\ drv = NoDrv
    /\ sent = <<>>
    /\ whereClause = <<>>
    /\ ret = NoRet
    /\ mq = NoMongoQuery
    /\ db = {}
    /\ schemes = <<>>
    /\ \E driver \in Drivers : model = [driver |-> driver, client |-> 0]
    /\ conns = <<>>

\* Model.Where(query...): the builder of the client, returned after the
\* deferred CloseClient has run
WhereBuilder ==
    \E dial \in {"ok", "error"} :
        LET p == PrepareClient(model, conns, dial)
            c == CloseClient(p.model, p.conns)
        IN  /\ Len(p.conns) <= MaxClients
            /\ op' = "Where"
            /\ model' = IF p.panic THEN p.model ELSE c.model
            /\ conns' = IF p.panic THEN p.conns ELSE c.conns
            /\ q' = IF p.panic THEN q ELSE ClientQuery(p.model.client, FALSE)
            /\ drv' = NoDrv
            /\ ret' = [NoRet EXCEPT !.panic = p.panic]
            /\ UNCHANGED <<rd, client, arg, sent, whereClause, mq, db, schemes>>

\* NewBuilder(client.Query(...), scheme, client) over a client just made
NewBuilder ==
    /\ Len(conns) < MaxClients
    /\ model.driver # "invalid"
    /\ op' = "NewBuilder"
    /\ conns' = Append(conns, [closed |-> 0])
    /\ q' = ClientQuery(Len(conns) + 1, TRUE)
    /\ drv' = NoDrv
    /\ ret' = NoRet
    /\ UNCHANGED <<rd, client, arg, sent, whereClause, mq, db, schemes, model>>

\* Count, First, All, Update or Delete called on the builder Where returned:
\* the statement goes to the session the builder keeps, which answers with
\* an error when it is closed
Terminal ==
    \E name \in TerminalOps, outcome \in {"ok", "error"} :
        /\ q.session # 0 /\ ~q.wrapped
        /\ conns[q.session].closed > 0 => outcome = "error"
        /\ op' = name
        /\ drv' = [outcome |-> outcome, count |-> q.session]
        /\ ret' = [NoRet EXCEPT !.err = (outcome = "error")]
        /\ UNCHANGED <<rd, client, q, arg, sent, whereClause, mq, db, schemes, model, conns>>

\* A terminal operation of Builder: defer b.client.Close(), then
\* the operation of the builder inside
BuilderTerminal ==
    \E name \in BuilderOps, outcome \in {"ok", "error"} :
        LET c == ClientClose(conns, q.session)
        IN  /\ q.session # 0 /\ q.wrapped
            /\ conns[q.session].closed > 0 => outcome = "error"
            /\ op' = name
            /\ drv' = [outcome |-> outcome, count |-> q.session]
            /\ conns' = c.conns
            /\ ret' = [NoRet EXCEPT !.err = (outcome = "error" /\ ~c.panic),
                                    !.panic = c.panic]
            /\ UNCHANGED <<rd, client, q, arg, sent, whereClause, mq, db, schemes, model>>

NextConn == WhereBuilder \/ NewBuilder \/ Terminal \/ BuilderTerminal

SpecConn == InitConn /\ [][NextConn]_vars

\* C27: a terminal operation of a builder runs on a connection that is
\* open when it is called, and does not close a client that is closed.
C27_NoUseAfterClose ==
    [][(op' \in TerminalOps \cup BuilderOps) =>
            (conns[q.session].closed = 0 /\ ~ret'.panic)]_vars

----------------------------------------------------------------------------
(* The MongoDB client and its collections.  client is the MongoDB struct:
   whether it has a session, and the collection handle it holds ("" is
   nil); a handle is the name of the collection it is of.  db is the
   documents of the database, each with the collection it is in; arg.table
   is the collection name the call was given, sent the handle the call
   went to. *)

CollectionNames == {"players", "teams"}

DocumentIDs == {1, 2}

\* NewMongoDB(url, dbName): a session, no collection yet
NewClient == [session |-> TRUE, collection |-> NilCollection]

\* MongoDB.GetCollection(collection) -> [client, handle]
GetCollection(c, collection) ==
    IF c.collection = NilCollection
    THEN [client |-> [c EXCEPT !.collection = collection], handle |-> collection]
    ELSE [client |-> c, handle |-> c.collection]

InitCollection ==
    /\ rd = ZeroRecordData
    /\ client = NewClient
    /\ q = NoQuery
    /\ op = "NewMongoDB"
    /\ arg = NoArg
    /\ drv = NoDrv
    /\ sent = <<>>
    /\ whereClause = <<>>
    /\ ret = NoRet
    /\ mq = NoMongoQuery
    /\ db = {}
    /\ schemes = <<>>
    /\ model = NoModel
    /\ conns = <<>>

\* what a call on a client without session leaves: c.session.DB faults
Faulted(name, collection) ==
    /\ op' = name
    /\ arg' = [NoArg EXCEPT !.table = <<collection>>]
    /\ sent' = <<>>
    /\ drv' = NoDrv
    /\ ret' = [NoRet EXCEPT !.panic = TRUE]
    /\ UNCHANGED <<rd, client, q, whereClause, mq, db, schemes, model, conns>>

\* a call on collection, made through handle: what it leaves but for the
\* documents, the query and the result
Called(name, collection, g) ==
    /\ op' = name
    /\ arg' = [NoArg EXCEPT !.table = <<collection>>]
    /\ client' = g.client
    /\ sent' = <<g.handle>>
    /\ UNCHANGED <<rd, q, whereClause, schemes, model, conns>>

\* MongoDB.Insert(collectionName, data)
CollectionInsert ==
    \E collection \in CollectionNames, id \in DocumentIDs, outcome \in {"ok", "error"} :
        IF ~client.session THEN Faulted("MongoDB.Insert", collection)
        ELSE LET g == GetCollection(client, collection)
             IN  /\ Called("MongoDB.Insert", collection, g)
                 /\ db' = IF outcome = "ok"
                          THEN db \cup {[collection |-> g.handle, id |-> id]}
                          ELSE db
                 /\ drv' = [outcome |-> outcome, count |-> 0]
                 /\ ret' = [NoRet EXCEPT !.err = (outcome = "error")]
                 /\ mq' = mq

\* MongoDB.FindByID(collectionName, id): One answers not found as an error
CollectionFindByID ==
    \E collection \in CollectionNames, id \in DocumentIDs :
        IF ~client.session THEN Faulted("MongoDB.FindByID", collection)
        ELSE LET g == GetCollection(client, collection)
                 found == [collection |-> g.handle, id |-> id] \in db
             IN  /\ Called("MongoDB.FindByID", collection, g)
                 /\ drv' = [outcome |-> IF found THEN "ok" ELSE "error",
                            count |-> IF found THEN 1 ELSE 0]
                 /\ ret' = [NoRet EXCEPT !.count = drv'.count, !.err = ~found]
                 /\ UNCHANGED <<db, mq>>

\* MongoDB.UpdateByID(collectionName, id, data)
CollectionUpdateByID ==
    \E collection \in CollectionNames, id \in DocumentIDs :
        IF ~client.session THEN Faulted("MongoDB.UpdateByID", collection)
        ELSE LET g == GetCollection(client, collection)
                 found == [collection |-> g.handle, id |-> id] \in db
             IN  /\ Called("MongoDB.UpdateByID", collection, g)
                 /\ drv' = [outcome |-> IF found THEN "ok" ELSE "error", count |-> 0]
                 /\ ret' = [NoRet EXCEPT !.err = ~found]
                 /\ UNCHANGED <<db, mq>>

\* MongoDB.DeleteByID(collectionName, id)
CollectionDeleteByID ==
    \E collection \in CollectionNames, id \in DocumentIDs :
        IF ~client.session THEN Faulted("MongoDB.DeleteByID", collection)
        ELSE LET g == GetCollection(client, collection)
                 found == [collection |-> g.handle, id |-> id] \in db
             IN  /\ Called("MongoDB.DeleteByID", collection, g)
                 /\ db' = db \ {[collection |-> g.handle, id |-> id]}
                 /\ drv' = [outcome |-> IF found THEN "ok" ELSE "error", count |-> 0]
                 /\ ret' = [NoRet EXCEPT !.err = ~found]
                 /\ mq' = mq

\* MongoDB.Query(collectionName): queryMongoDB asks for the collection,
\* then newMongoQuery is handed the collection asked for again
CollectionQuery ==
    \E collection \in CollectionNames :
        IF ~client.session THEN Faulted("MongoDB.Query", collection)
        ELSE LET g == GetCollection(client, collection)
                 h == GetCollection(g.client, collection)
             IN  /\ Called("MongoDB.Query", collection, h)
                 /\ mq' = newMongoQuery(queryMongoDB(g.handle, <<>>), h.handle, <<>>)
                 /\ drv' = NoDrv
                 /\ ret' = NoRet
                 /\ db' = db

\* MongoDB.Close()
CollectionClose ==
    /\ client.session
    /\ op' = "MongoDB.Close"
    /\ client' = [session |-> FALSE, collection |-> NilCollection]
    /\ arg' = NoArg
    /\ sent' = <<>>
    /\ drv' = NoDrv
    /\ ret' = NoRet
    /\ UNCHANGED <<rd, q, whereClause, mq, db, schemes, model, conns>>

\* NewMongoDB(url, dbName) once the client before was closed
CollectionDial ==
    /\ ~client.session
    /\ op' = "NewMongoDB"
    /\ client' = NewClient
    /\ arg' = NoArg
    /\ sent' = <<>>
    /\ drv' = NoDrv
    /\ ret' = NoRet
    /\ UNCHANGED <<rd, q, whereClause, mq, db, schemes, model, conns>>

NextCollection ==
    \/ CollectionInsert
    \/ CollectionFindByID
    \/ CollectionUpdateByID
    \/ CollectionDeleteByID
    \/ CollectionQuery
    \/ CollectionClose
    \/ CollectionDial

SpecCollection == InitCollection /\ [][NextCollection]_vars

CollectionOps ==
    {"MongoDB.Insert", "MongoDB.FindByID", "MongoDB.UpdateByID",
     "MongoDB.DeleteByID", "MongoDB.Query"}

\* C29: a call given the collection name X goes to the handle of collection
\* X, whatever collections the calls before it on the client were given.
C29_ActsOnNamedCollection ==
    (op \in CollectionOps /\ ~ret.panic) => sent = arg.table
====
